---- MODULE Spec2Model ----
(***************************************************************************)
(* Model of the archive ingestion pipeline of pants-api-server:            *)
(*   - the archives store (Supabase table "archives"),                     *)
(*   - checkForDuplicates / archiveSinglePage / processPocketImport        *)
(*     (pocket importer),                                                  *)
(*   - POST /api/archive (server.js),                                      *)
(*   - processArchiveWithSharedEmbeddings (gemini-embeddings).             *)
(* Every await on a collaborator (store query, extraction, embedding       *)
(* provider) is one step; the code between two awaits is atomic, as it is  *)
(* on the single-threaded event loop.                                      *)
(***************************************************************************)
EXTENDS Integers, Sequences, FiniteSets, TLC

\* ---------------------------------------------------------------- bounds
MaxItems == 3          \* longest import list
MaxBatchSize == 2      \* largest options.batchSize tried
MaxReqs == 1           \* POST /api/archive and DELETE /api/archive/:id requests
\* checkForDuplicates' query width. The source uses 100; the model keeps the
\* loop and scales the width so that lists of MaxItems items span several
\* existence queries.
DupBatchSize == 2
MaxTextLen == 5        \* longest text given to a chunkText call on its own
MaxChunkSize == 4      \* largest chunkSize tried
MaxOverlap == 4        \* largest overlap tried
MaxLoopTextLen == 3    \* longest text of the calls followed to their end
MaxLoopChunkSize == 2  \* largest chunkSize of those calls
MaxLoopOverlap == 2    \* largest overlap of those calls
MaxHits == 3           \* most hits the retrieval collaborator returns
MaxBeforeTens == 35    \* most characters before the phrase in a text, in tens
MaxAfterBlocks == 1    \* most characters after the phrase, in blocks of 150
MaxCsvLines == 3       \* most lines of an uploaded csvContent
MaxRows == 4           \* most rows of the table a deduplication run finds
DedupeBatchSize == 2   \* ids per delete query of the deduplication (100 in the code)
MaxKgCalls == 2        \* processArticleForKnowledgeGraph calls for one article in progress
MaxEntities == 2       \* most entities an extraction returns
MaxRelationships == 1  \* most relationships an extraction returns

\* ------------------------------------------------------ program constants
maxRetries == 2
delayBetweenBatches == 500

URLs == {"http://a", "http://b"}
Users == {"u1", "u2"}
\* An ImportItem as parsePocketCSV produces it, identified by its url.
Items == URLs
\* Request bodies of POST /api/archive: a missing url and a string that
\* new URL() rejects, besides the well-formed ones.
ReqUrls == URLs \cup {"", "not a url"}
Reqs == 1..MaxReqs
NoRow == [id |-> 0, user_id |-> "", url |-> ""]

VARIABLES
  archives,      \* the archives table: rows in creation order
  lastId,        \* the id the store gave to the row created last (0: none)
  usage,         \* archive usage count per user (increment_archive_count)
  jobs,          \* archive ids whose background processing was started
  runNo,         \* number of processPocketImport runs started
  prevFailed,    \* results.failed of the previous run (-1: none)
  prevCount,     \* Len(archives) when the current run started
  dupFailed,     \* some existence query of the current run failed
  dupLog,        \* the existence queries of checkForDuplicates, as answered
  urls, userId, batchSize,           \* arguments of the current run
  pc,            \* position of the current run
  existingUrls, dupI,                \* checkForDuplicates' locals
  newUrls, duplicates,               \* its result: positions in urls
  i,             \* processPocketImport's loop variable
  slots,         \* the promises of the current batch
  results,       \* the summary being built
  progress,      \* the calls made to onProgress
  sleeps,        \* delayBetweenBatches sleeps performed
  req,           \* the POST /api/archive and DELETE /api/archive/:id requests
  genAI,         \* the Gemini client is configured (GEMINI_API_KEY is set)
  content_embeddings,  \* the content_embeddings table
  user_content,  \* the user_content table (links)
  calls,         \* provider calls made so far, per (content hash, chunk index)
  ejob,          \* the executions of processArchiveWithSharedEmbeddings
  ctLegacy,      \* the chunkText called is the one of embeddings.js
  ctText, ctChunkSize, ctOverlap,    \* arguments of the chunkText call
  ctPc,          \* position of the chunkText call
  ctPosition,    \* chunkText's position
  ctPrev,        \* position at the start of the previous iteration (-1: none)
  ctChunks,      \* chunkText's chunks
  ctWindows,     \* the windows <<position, endPosition>> scanned so far
  shPc,          \* position of the POST /api/search request
  shHits,        \* the hits hybridSearchWithSharedEmbeddings returned
  shK,           \* number of hits the grouping loop has handled
  groupedResults,  \* the groups, in the order their keys were created
  finalResults,  \* the groups as answered
  shFetched,     \* archive ids the supplemental archive query was issued for
  snPc,          \* position of the snippet computation of one group
  snText, snQuery,   \* the archive text and the query
  snSnippet,     \* what extractSnippet returned
  snHighlighted, \* what highlightTerms returned for it
  ireq,          \* the POST /api/pocket/import request
  dd,            \* the deduplication run (POST /api/admin/dedupe or the script)
  kg             \* a processArticleForKnowledgeGraph call and the entity tables

importVars == <<runNo, prevFailed, prevCount, dupFailed, dupLog, urls, userId, batchSize,
                pc, existingUrls, dupI, newUrls, duplicates, i, slots, results,
                progress, sleeps>>
embedVars == <<genAI, content_embeddings, user_content, calls, ejob>>
chunkVars == <<ctLegacy, ctText, ctChunkSize, ctOverlap, ctPc, ctPosition, ctPrev,
               ctChunks, ctWindows>>
\* the state of the components beside the archive, import and embedding paths
searchVars == <<shPc, shHits, shK, groupedResults, finalResults, shFetched>>
snippetVars == <<snPc, snText, snQuery, snSnippet, snHighlighted>>
otherVars == <<dd, kg>>
auxVars == <<chunkVars, searchVars, snippetVars, ireq, otherVars>>
vars == <<archives, lastId, usage, jobs, importVars, req, embedVars, auxVars>>

\* ------------------------------------------------------------- the store
Min(a, b) == IF a < b THEN a ELSE b

RECURSIVE SelectSeq2(_, _, _)
\* rows of s with user_id = u and url in us, in table order
SelectSeq2(s, u, us) ==
  IF s = <<>> THEN <<>>
  ELSE LET r == Head(s)
           rest == SelectSeq2(Tail(s), u, us)
       IN IF r.user_id = u /\ r.url \in us THEN <<r>> \o rest ELSE rest

\* .from('archives').select().eq('user_id', u).in('url', us)
SelectByUserUrls(tbl, u, us) == SelectSeq2(tbl, u, us)

\* PostgREST .single(): the row when the query matches exactly one row;
\* otherwise data is null (error PGRST116, zero or several rows).
Single(rows) == IF Len(rows) = 1 THEN rows[1] ELSE NoRow

\* .from('archives').insert({...}).select().single(): the table has no
\* uniqueness rule on (user_id, url); the new row gets the id after last, an
\* id no row had before.
InsertArchive(tbl, last, u, url) ==
  Append(tbl, [id |-> last + 1, user_id |-> u, url |-> url])

\* .from('archives').delete().eq('id', id).eq('user_id', u)
DeleteArchive(tbl, id, u) == SelectSeq(tbl, LAMBDA r : ~(r.id = id /\ r.user_id = u))

\* ------------------------------------------------------ pocket importer
NoResult == [success |-> FALSE, skipped |-> FALSE, url |-> "", archiveId |-> 0]

RECURSIVE SeqsUpTo(_, _)
\* all sequences over S of length <= n
SeqsUpTo(S, n) ==
  IF n = 0 THEN {<<>>}
  ELSE LET shorter == SeqsUpTo(S, n - 1)
       IN shorter \cup {Append(q, x) : q \in {t \in shorter : Len(t) = n - 1}, x \in S}

ItemLists == SeqsUpTo(Items, MaxItems)

\* variant: the filter ignores which side of the partition is asked for
FilterPositionsAnySide(list, existing, keep, p) ==
  SelectSeq([q \in 1..Len(list) |-> q], LAMBDA q : q >= p /\ list[q] \in existing)

RECURSIVE FilterPositions(_, _, _, _)
\* urls.filter(item => existing.has(item.url) = keep), as positions in list
FilterPositions(list, existing, keep, p) ==
  IF p > Len(list) THEN <<>>
  ELSE IF (list[p] \in existing) = keep
       THEN <<p>> \o FilterPositions(list, existing, keep, p + 1)
       ELSE FilterPositions(list, existing, keep, p + 1)

\* the catch block of archiveSinglePage: every error becomes a returned
\* failure result, so the function never rejects
ArchiveSinglePageCatch(url) ==
  [threw |-> FALSE,
   value |-> [success |-> FALSE, skipped |-> FALSE, url |-> url, archiveId |-> 0]]

\* variant: an item found at the existence check is returned as archived
ArchiveSinglePageExistingAsArchived(row) ==
  [threw |-> FALSE,
   value |-> [success |-> TRUE, skipped |-> FALSE, url |-> row.url, archiveId |-> row.id]]

\* archiveSinglePage found the row at its own existence check
ArchiveSinglePageExisting(row) ==
  [threw |-> FALSE,
   value |-> [success |-> TRUE, skipped |-> TRUE, url |-> row.url, archiveId |-> row.id]]

\* archiveSinglePage inserted the row
ArchiveSinglePageCreated(row) ==
  [threw |-> FALSE,
   value |-> [success |-> TRUE, skipped |-> FALSE, url |-> row.url, archiveId |-> row.id]]

\* the retry loop of the batch mapper, resumed with the outcome of
\* archiveSinglePage: a returned value ends the loop; a thrown error counts a
\* retry and (after the backoff sleep) calls archiveSinglePage again, or gives
\* up with a failure result
MapperResume(slot, out) ==
  IF ~out.threw
    THEN [slot EXCEPT !.pc = "fulfilled", !.result = out.value]
    ELSE IF slot.retries + 1 <= maxRetries
      THEN [slot EXCEPT !.retries = @ + 1, !.pc = "check"]
      ELSE [slot EXCEPT !.retries = @ + 1, !.pc = "fulfilled",
                        !.result = [success |-> FALSE, skipped |-> FALSE,
                                    url |-> slot.url, archiveId |-> 0]]

\* batch.map(async urlData => ...) up to its first await: archiveSinglePage
\* has issued its existence query
InitSlot(list, p) ==
  [item |-> p, url |-> list[p], pc |-> "check",
   retries |-> 0, attempts |-> 0, extracted |-> 0, doneAt |-> 0, result |-> NoResult]

\* variant: only the first item of each batch is started
EnterLoopFirstOnly(ni, list, nu, bs) ==
  /\ i' = ni
  /\ IF ni < Len(nu)
       THEN /\ pc' = "batch"
            /\ slots' = <<InitSlot(list, nu[ni + 1])>>
       ELSE /\ pc' = "returned"
            /\ slots' = <<>>

\* variant: the slice of a batch is one item wider than batchSize
EnterLoopWide(ni, list, nu, bs) ==
  /\ i' = ni
  /\ IF ni < Len(nu)
       THEN /\ pc' = "batch"
            /\ slots' = [k \in 1..Min(bs + 1, Len(nu) - ni) |-> InitSlot(list, nu[ni + k])]
       ELSE /\ pc' = "returned"
            /\ slots' = <<>>

\* for (let i = 0; i < urlsToProcess.length; i += batchSize): the loop test
\* and the start of the batch
EnterLoop(ni, list, nu, bs) ==
  /\ i' = ni
  /\ IF ni < Len(nu)
       THEN /\ pc' = "batch"
            /\ slots' = [k \in 1..Min(bs, Len(nu) - ni) |-> InitSlot(list, nu[ni + k])]
       ELSE /\ pc' = "returned"
            /\ slots' = <<>>

\* variant: results.skipped is not set to the number of duplicates
AfterDupCheckSkippedUnset(base, list, nu, du, bs) ==
  /\ newUrls' = nu
  /\ duplicates' = du
  /\ results' = [base EXCEPT !.duplicates = Len(du)]
  /\ EnterLoop(0, list, nu, bs)

\* processPocketImport after checkForDuplicates returned
AfterDupCheck(base, list, nu, du, bs) ==
  /\ newUrls' = nu
  /\ duplicates' = du
  /\ results' = [base EXCEPT !.duplicates = Len(du), !.skipped = Len(du)]
  /\ EnterLoop(0, list, nu, bs)

\* processPocketImport up to its first await. skipped and duplicates are
\* undefined until checkForDuplicates returns; every read of them is
\* (x || 0), so 0 stands for undefined.
BeginRun(list, user, bs) ==
  LET base == [total |-> Len(list), successful |-> 0, failed |-> 0,
               skipped |-> 0, duplicates |-> 0, results |-> <<>>]
  IN /\ urls' = list /\ userId' = user /\ batchSize' = bs
     /\ runNo' = runNo + 1
     /\ prevCount' = Len(archives)
     /\ existingUrls' = {}
     /\ dupI' = 0
     /\ progress' = <<>>
     /\ sleeps' = 0
     /\ dupFailed' = FALSE
     /\ dupLog' = <<>>
     /\ IF Len(list) = 0
          \* no existence query is made and no batch is started
          THEN AfterDupCheck(base, list, <<>>, <<>>, bs)
          ELSE /\ pc' = "dupcheck"
               /\ results' = base
               /\ newUrls' = <<>> /\ duplicates' = <<>>
               /\ i' = 0 /\ slots' = <<>>

StartImport(list, user, bs) ==
  /\ pc = "idle"
  /\ prevFailed' = prevFailed
  /\ BeginRun(list, user, bs)
  /\ UNCHANGED <<auxVars, archives, lastId, usage, jobs, req, embedVars>>

\* the same list is imported again for the same user after the first run
ReImport ==
  /\ pc = "returned"
  /\ runNo = 1
  /\ prevFailed' = results.failed
  /\ BeginRun(urls, userId, batchSize)
  /\ UNCHANGED <<auxVars, archives, lastId, usage, jobs, req, embedVars>>

\* what a query of checkForDuplicates leaves in the log: where its batch
\* starts, whether it answered, and the urls of the rows it returned
QueryRecord(at, ok, rows) ==
  [at |-> at, ok |-> ok,
   found |-> IF ok THEN {rows[k].url : k \in 1..Len(rows)} ELSE {}]

\* variant: a failed query ends checkForDuplicates through its outer catch,
\* which returns every item as new
DupQueryAbortOnError(ok) ==
  /\ pc = "dupcheck"
  /\ LET hi == Min(dupI + DupBatchSize, Len(urls))
         batch == {urls[p] : p \in (dupI + 1)..hi}
         rows == SelectByUserUrls(archives, userId, batch)
         found == IF ok THEN existingUrls \cup {rows[k].url : k \in 1..Len(rows)}
                        ELSE {}
     IN /\ existingUrls' = found
        /\ dupFailed' = (dupFailed \/ ~ok)
        /\ dupLog' = Append(dupLog, QueryRecord(dupI, ok, rows))
        /\ dupI' = dupI + DupBatchSize
        /\ IF ok /\ dupI + DupBatchSize < Len(urls)
             THEN UNCHANGED <<pc, newUrls, duplicates, results, i, slots>>
             ELSE AfterDupCheck(results, urls,
                                FilterPositions(urls, found, FALSE, 1),
                                FilterPositions(urls, found, TRUE, 1), batchSize)
  /\ UNCHANGED <<auxVars, archives, lastId, usage, jobs, req, embedVars, runNo, prevFailed, prevCount,
                 urls, userId, batchSize, progress, sleeps>>

\* one iteration of checkForDuplicates' loop: the existence query of one
\* batch of urls answers (ok) or fails
DupQuery(ok) ==
  /\ pc = "dupcheck"
  /\ LET hi == Min(dupI + DupBatchSize, Len(urls))
         batch == {urls[p] : p \in (dupI + 1)..hi}
         rows == SelectByUserUrls(archives, userId, batch)
         found == IF ok THEN existingUrls \cup {rows[k].url : k \in 1..Len(rows)}
                        ELSE existingUrls
     IN /\ existingUrls' = found
        /\ dupFailed' = (dupFailed \/ ~ok)
        /\ dupLog' = Append(dupLog, QueryRecord(dupI, ok, rows))
        /\ dupI' = dupI + DupBatchSize
        /\ IF dupI + DupBatchSize < Len(urls)
             THEN UNCHANGED <<pc, newUrls, duplicates, results, i, slots>>
             ELSE AfterDupCheck(results, urls,
                                FilterPositions(urls, found, FALSE, 1),
                                FilterPositions(urls, found, TRUE, 1), batchSize)
  /\ UNCHANGED <<auxVars, archives, lastId, usage, jobs, req, embedVars, runNo, prevFailed, prevCount,
                 urls, userId, batchSize, progress, sleeps>>

\* the slot's promise changes; a promise that settles is stamped with its rank
\* among the settled promises of the run (doneAt, not stored by the code)
SetSlot(k, slot) ==
  LET settledNow == slot.pc \in {"fulfilled", "rejected"}
      settledBefore == {j \in DOMAIN slots : slots[j].pc \in {"fulfilled", "rejected"}}
  IN slots' = [slots EXCEPT ![k] =
                 IF settledNow
                   THEN [slot EXCEPT !.doneAt = Len(results.results)
                                                + Cardinality(settledBefore) + 1]
                   ELSE slot]

\* archiveSinglePage: the answer of its existence query ("final safety
\* check"); checkError is ignored, so a failed query reads as "no row"
ItemCheck(k, ok) ==
  /\ pc = "batch"
  /\ k \in DOMAIN slots
  /\ slots[k].pc = "check"
  /\ LET row == IF ok THEN Single(SelectByUserUrls(archives, userId, {slots[k].url}))
                      ELSE NoRow
     IN IF row # NoRow
          THEN SetSlot(k, MapperResume(slots[k], ArchiveSinglePageExisting(row)))
          ELSE SetSlot(k, [slots[k] EXCEPT !.pc = "extract"])
  /\ UNCHANGED <<auxVars, archives, lastId, usage, jobs, req, embedVars, runNo, prevFailed, prevCount, dupFailed,
                 dupLog,
                 urls, userId, batchSize, pc, existingUrls, dupI, newUrls,
                 duplicates, i, results, progress, sleeps>>

\* archiveSinglePage: archivePageWithFirecrawl(url, fallback) returns the
\* extracted page (ok) or throws after Firecrawl and the fallback both failed
ItemExtract(k, ok) ==
  /\ pc = "batch"
  /\ k \in DOMAIN slots
  /\ slots[k].pc = "extract"
  /\ LET called == [slots[k] EXCEPT !.attempts = @ + 1]
     IN IF ok
          THEN SetSlot(k, [called EXCEPT !.pc = "insert", !.extracted = @ + 1])
          ELSE SetSlot(k, MapperResume(called, ArchiveSinglePageCatch(called.url)))
  /\ UNCHANGED <<auxVars, archives, lastId, usage, jobs, req, embedVars, runNo, prevFailed, prevCount, dupFailed,
                 dupLog,
                 urls, userId, batchSize, pc, existingUrls, dupI, newUrls,
                 duplicates, i, results, progress, sleeps>>

\* archiveSinglePage: the insert answers with the new row (ok) or insertError
ItemInsert(k, ok) ==
  /\ pc = "batch"
  /\ k \in DOMAIN slots
  /\ slots[k].pc = "insert"
  /\ IF ok
       THEN LET tbl == InsertArchive(archives, lastId, userId, slots[k].url)
            IN /\ archives' = tbl
               /\ lastId' = lastId + 1
               /\ SetSlot(k, MapperResume(slots[k],
                                          ArchiveSinglePageCreated(tbl[Len(tbl)])))
       ELSE /\ UNCHANGED <<archives, lastId>>
            /\ SetSlot(k, MapperResume(slots[k], ArchiveSinglePageCatch(slots[k].url)))
  /\ UNCHANGED <<auxVars, usage, jobs, req, embedVars, runNo, prevFailed, prevCount, dupFailed,
                 dupLog,
                 urls, userId, batchSize, pc, existingUrls, dupI, newUrls,
                 duplicates, i, results, progress, sleeps>>

\* variant: onProgress is called before the counters are updated
SettleOneProgressFirst(acc, slot) ==
  IF slot.pc = "fulfilled"
    THEN LET r == slot.result
             res == acc.results
             counted ==
               IF r.success
                 THEN IF r.skipped
                        THEN [res EXCEPT !.skipped = @ + 1]
                        ELSE [res EXCEPT !.successful = @ + 1]
                 ELSE [res EXCEPT !.failed = @ + 1]
             pushed == [counted EXCEPT !.results =
                          Append(@, [success |-> r.success, skipped |-> r.skipped,
                                     url |-> r.url, archiveId |-> r.archiveId,
                                     item |-> slot.item, attempts |-> slot.attempts,
                                     extracted |-> slot.extracted, doneAt |-> slot.doneAt])]
         IN [results |-> pushed,
             progress |-> Append(acc.progress,
                            [processed |-> res.successful + res.failed,
                             total |-> res.total,
                             successful |-> res.successful,
                             failed |-> res.failed,
                             currentUrl |-> slot.url,
                             currentResult |-> r,
                             currentItem |-> slot.item])]
    ELSE [results |-> [acc.results EXCEPT
                         !.failed = @ + 1,
                         !.results = Append(@, [success |-> FALSE, skipped |-> FALSE,
                                                url |-> "unknown", archiveId |-> 0,
                                                item |-> slot.item,
                                                attempts |-> slot.attempts,
                                                extracted |-> slot.extracted, doneAt |-> slot.doneAt])],
          progress |-> acc.progress]

\* the body of `for (const promiseResult of batchResults)` for one promise;
\* acc = [results, progress]. Each results entry also records what the code
\* does not store: the position of the list item it was produced for (item),
\* how often archivePageWithFirecrawl was called for it (attempts) and how
\* often that call returned a page (extracted).
SettleOne(acc, slot) ==
  IF slot.pc = "fulfilled"
    THEN LET r == slot.result
             res == acc.results
             counted ==
               IF r.success
                 THEN IF r.skipped
                        THEN [res EXCEPT !.skipped = @ + 1]
                        ELSE [res EXCEPT !.successful = @ + 1]
                 ELSE [res EXCEPT !.failed = @ + 1]
             pushed == [counted EXCEPT !.results =
                          Append(@, [success |-> r.success, skipped |-> r.skipped,
                                     url |-> r.url, archiveId |-> r.archiveId,
                                     item |-> slot.item, attempts |-> slot.attempts,
                                     extracted |-> slot.extracted, doneAt |-> slot.doneAt])]
         IN [results |-> pushed,
             progress |-> Append(acc.progress,
                            [processed |-> pushed.successful + pushed.failed,
                             total |-> pushed.total,
                             successful |-> pushed.successful,
                             failed |-> pushed.failed,
                             currentUrl |-> slot.url,
                             currentResult |-> r,
                             currentItem |-> slot.item])]
    ELSE [results |-> [acc.results EXCEPT
                         !.failed = @ + 1,
                         !.results = Append(@, [success |-> FALSE, skipped |-> FALSE,
                                                url |-> "unknown", archiveId |-> 0,
                                                item |-> slot.item,
                                                attempts |-> slot.attempts,
                                                extracted |-> slot.extracted, doneAt |-> slot.doneAt])],
          progress |-> acc.progress]

RECURSIVE SettleFromLastFirst(_, _, _)
\* variant: the promises of a batch are counted from the last to the first
SettleFromLastFirst(acc, ss, k) ==
  IF k > Len(ss) THEN acc ELSE SettleOne(SettleFromLastFirst(acc, ss, k + 1), ss[k])

RECURSIVE SettleFrom(_, _, _)
SettleFrom(acc, ss, k) ==
  IF k > Len(ss) THEN acc ELSE SettleFrom(SettleOne(acc, ss[k]), ss, k + 1)

\* variant: Promise.all-like, a batch waits for every item to succeed
SettledOnSuccess(slot) == slot.pc = "fulfilled" /\ slot.result.success

\* a promise of the batch is settled once its mapper returned or threw
Settled(slot) == slot.pc \in {"fulfilled", "rejected"}

\* variant: the delay is also awaited after the last batch
SettleBatchAlwaysSleeps ==
  /\ pc = "batch"
  /\ \A k \in DOMAIN slots : Settled(slots[k])
  /\ LET acc == SettleFrom([results |-> results, progress |-> progress], slots, 1)
     IN /\ results' = acc.results
        /\ progress' = acc.progress
  /\ IF delayBetweenBatches > 0
       THEN /\ pc' = "delay"
            /\ sleeps' = sleeps + 1
            /\ slots' = <<>>
            /\ UNCHANGED i
       ELSE /\ EnterLoop(i + batchSize, urls, newUrls, batchSize)
            /\ UNCHANGED sleeps
  /\ UNCHANGED <<auxVars, archives, lastId, usage, jobs, req, embedVars, runNo, prevFailed, prevCount, dupFailed,
                 dupLog,
                 urls, userId, batchSize, existingUrls, dupI, newUrls, duplicates>>

\* Promise.allSettled(batchPromises) resolved: count the batch, then sleep
\* before the next batch or go on
SettleBatch ==
  /\ pc = "batch"
  /\ \A k \in DOMAIN slots : Settled(slots[k])
  /\ LET acc == SettleFrom([results |-> results, progress |-> progress], slots, 1)
     IN /\ results' = acc.results
        /\ progress' = acc.progress
  /\ IF i + batchSize < Len(newUrls) /\ delayBetweenBatches > 0
       THEN /\ pc' = "delay"
            /\ sleeps' = sleeps + 1
            /\ slots' = <<>>
            /\ UNCHANGED i
       ELSE /\ EnterLoop(i + batchSize, urls, newUrls, batchSize)
            /\ UNCHANGED sleeps
  /\ UNCHANGED <<auxVars, archives, lastId, usage, jobs, req, embedVars, runNo, prevFailed, prevCount, dupFailed,
                 dupLog,
                 urls, userId, batchSize, existingUrls, dupI, newUrls, duplicates>>

\* the delayBetweenBatches timer fired
DelayDone ==
  /\ pc = "delay"
  /\ EnterLoop(i + batchSize, urls, newUrls, batchSize)
  /\ UNCHANGED <<auxVars, archives, lastId, usage, jobs, req, embedVars, runNo, prevFailed, prevCount, dupFailed,
                 dupLog,
                 urls, userId, batchSize, existingUrls, dupI, newUrls, duplicates,
                 results, progress, sleeps>>

\* ------------------------------------------------------ POST /api/archive
IdleReq == [pc |-> "idle", method |-> "", url |-> "", id |-> 0, userId |-> "", status |-> 0]

\* res.status(code).json(...): the request is over; its body is dropped
Respond(q, method, code) ==
  req' = [req EXCEPT ![q] = [IdleReq EXCEPT !.pc = "done", !.method = method,
                                            !.status = code]]

\* new URL(url) accepts the string
ValidUrl(u) == u \in URLs

\* the request arrives: body validation, then the duplicate query is issued
ReqStart(q, u, user) ==
  /\ req[q].pc = "idle"
  /\ IF u = "" \/ user = "" \/ ~ValidUrl(u)
       THEN Respond(q, "POST", 400)
       ELSE req' = [req EXCEPT ![q] = [IdleReq EXCEPT !.pc = "check", !.method = "POST",
                                                      !.url = u,
                                                      !.userId = user]]
  /\ UNCHANGED <<auxVars, archives, lastId, usage, jobs, importVars, embedVars>>

\* the duplicate query answers: a transport error is a 500, an existing row a
\* 409; PGRST116 (zero or several rows) lets the request go on
ReqCheck(q, ok) ==
  /\ req[q].pc = "check"
  /\ LET row == Single(SelectByUserUrls(archives, req[q].userId, {req[q].url}))
     IN IF ~ok THEN Respond(q, "POST", 500)
        ELSE IF row # NoRow THEN Respond(q, "POST", 409)
        ELSE req' = [req EXCEPT ![q].pc = "usage"]
  /\ UNCHANGED <<auxVars, archives, lastId, usage, jobs, importVars, embedVars>>

\* the stored function increment_archive_count for a user below the limit,
\* by its name and its answer {allowed, current_count, limit}: the user's
\* count is one higher
IncrementArchiveCount(counts, user) == [counts EXCEPT ![user] = @ + 1]

\* rpc('increment_archive_count'): an error, a refusal (limit reached), or
\* the count is incremented and the request allowed
ReqUsage(q, out) ==
  /\ req[q].pc = "usage"
  /\ IF out = "error" THEN Respond(q, "POST", 500) /\ UNCHANGED usage
     ELSE IF out = "denied" THEN Respond(q, "POST", 429) /\ UNCHANGED usage
     ELSE /\ usage' = IncrementArchiveCount(usage, req[q].userId)
          /\ req' = [req EXCEPT ![q].pc = "extract"]
  /\ UNCHANGED <<auxVars, archives, lastId, jobs, importVars, embedVars>>

\* archivePageWithFirecrawl(url, archivePageCompletely) returns or throws
ReqExtract(q, ok) ==
  /\ req[q].pc = "extract"
  /\ IF ok THEN req' = [req EXCEPT ![q].pc = "insert"] ELSE Respond(q, "POST", 500)
  /\ UNCHANGED <<auxVars, archives, lastId, usage, jobs, importVars, embedVars>>

\* the insert answers: insertError is thrown (500); otherwise the row is
\* created, the background processing of the archive is started and the
\* request answers 200
ReqInsert(q, ok) ==
  /\ req[q].pc = "insert"
  /\ IF ok
       THEN LET tbl == InsertArchive(archives, lastId, req[q].userId, req[q].url)
            IN /\ archives' = tbl
               /\ lastId' = lastId + 1
               /\ jobs' = jobs \cup {tbl[Len(tbl)].id}
               /\ Respond(q, "POST", 200)
       ELSE /\ Respond(q, "POST", 500)
            /\ UNCHANGED <<archives, lastId, jobs>>
  /\ UNCHANGED <<auxVars, usage, importVars, embedVars>>

\* ------------------------------------------------ DELETE /api/archive/:id
\* the request arrives: the removal of the archive's screenshot from the
\* storage is issued
ReqDeleteStart(q, id, user) ==
  /\ req[q].pc = "idle"
  /\ req' = [req EXCEPT ![q] = [IdleReq EXCEPT !.pc = "storage", !.method = "DELETE",
                                               !.id = id,
                                               !.userId = user]]
  /\ UNCHANGED <<auxVars, archives, lastId, usage, jobs, importVars, embedVars>>

\* the storage answers: the deletion continues also when the removal failed,
\* the delete query is issued
ReqDeleteStorage(q, ok) ==
  /\ req[q].pc = "storage"
  /\ req' = [req EXCEPT ![q].pc = "delete"]
  /\ UNCHANGED <<auxVars, archives, lastId, usage, jobs, importVars, embedVars>>

\* the delete query answers: the row with the id is removed when it is the
\* user's and the request answers 200, also when no row matched; an error is
\* thrown to the catch block (500)
ReqDelete(q, ok) ==
  /\ req[q].pc = "delete"
  /\ IF ok
       THEN /\ archives' = DeleteArchive(archives, req[q].id, req[q].userId)
            /\ Respond(q, "DELETE", 200)
       ELSE /\ Respond(q, "DELETE", 500)
            /\ UNCHANGED archives
  /\ UNCHANGED <<auxVars, lastId, usage, jobs, importVars, embedVars>>

\* ------------------------------------------------------------ chunkText
Max(a, b) == IF a > b THEN a ELSE b
SetMax(S) == CHOOSE x \in S : \A y \in S : y <= x
SetMin(S) == CHOOSE x \in S : \A y \in S : x <= y

\* A text is a sequence of one-character strings; JavaScript's index n is
\* position n + 1 here.
Whitespace == {" ", "\n", "\t", "\r"}

\* text.slice(from, to) for 0 <= from, to <= text.length
Slice(text, from, to) == IF from < to THEN SubSeq(text, from + 1, to) ELSE <<>>

\* s.trim()
Trim(s) ==
  LET keep == {n \in 1..Len(s) : s[n] \notin Whitespace}
  IN IF keep = {} THEN <<>> ELSE SubSeq(s, SetMin(keep), SetMax(keep))

\* text.lastIndexOf(pat, from): the largest index <= from at which pat
\* starts, or -1
LastIndexOf(text, pat, from) ==
  LET at == {n \in 0..Min(from, Len(text) - Len(pat)) :
               \A d \in 1..Len(pat) : text[n + d] = pat[d]}
  IN IF at = {} THEN -1 ELSE SetMax(at)

\* the end of the window that starts at position
WindowEnd(text, chunkSize, position) ==
  LET endPosition == Min(position + chunkSize, Len(text))
      breakPoint == Max(LastIndexOf(text, <<"\n", "\n">>, endPosition),
                        Max(LastIndexOf(text, <<".", " ">>, endPosition),
                            LastIndexOf(text, <<"\n">>, endPosition)))
  IN IF endPosition < Len(text) /\ 2 * breakPoint > 2 * position + chunkSize
       THEN breakPoint + 1
       ELSE endPosition

\* variant: a chunk is numbered by the position of its window
PushChunkIndexByPosition(chunks, text, position, end) ==
  LET chunkContent == Trim(Slice(text, position, end))
  IN IF chunkContent # <<>>
       THEN Append(chunks, [content |-> chunkContent, index |-> position])
       ELSE chunks

\* chunks after the window [position, end) was handled
PushChunk(chunks, text, position, end) ==
  LET chunkContent == Trim(Slice(text, position, end))
  IN IF chunkContent # <<>>
       THEN Append(chunks, [content |-> chunkContent, index |-> Len(chunks)])
       ELSE chunks

\* variant: the clamp moves one character past the end of the window
NextPositionPastEnd(end, overlap, n) ==
  IF end - overlap <= n * overlap
    THEN end + 1
    ELSE end - overlap

\* position for the next iteration; n is chunks.length
NextPosition(end, overlap, n) ==
  IF end - overlap <= n * overlap
    THEN Max(end, end - overlap + 1)
    ELSE end - overlap

RECURSIVE ChunkLoop(_, _, _, _, _)
\* the while loop of chunkText, from position with chunks emitted so far
ChunkLoop(text, chunkSize, overlap, position, chunks) ==
  IF position >= Len(text) THEN chunks
  ELSE LET end == WindowEnd(text, chunkSize, position)
           pushed == PushChunk(chunks, text, position, end)
       IN ChunkLoop(text, chunkSize, overlap,
                    NextPosition(end, overlap, Len(pushed)), pushed)

chunkText(text, chunkSize, overlap) == ChunkLoop(text, chunkSize, overlap, 0, <<>>)

DefaultChunkSize == 1500
DefaultOverlap == 300

\* embeddings.js: the break point is the last "." or "\n" at or before
\* endPosition
WindowEndLegacy(text, chunkSize, position) ==
  LET endPosition == Min(position + chunkSize, Len(text))
      breakPoint == Max(LastIndexOf(text, <<".">>, endPosition),
                        LastIndexOf(text, <<"\n">>, endPosition))
  IN IF endPosition < Len(text) /\ 2 * breakPoint > 2 * position + chunkSize
       THEN breakPoint + 1
       ELSE endPosition

\* embeddings.js: every window is pushed, blank or not
PushChunkLegacy(chunks, text, position, end) ==
  Append(chunks, [content |-> Trim(Slice(text, position, end)), index |-> Len(chunks)])

\* characters of the texts chunked on their own: a letter, a blank, a
\* sentence end and a line end
Chars == {"a", " ", ".", "\n"}
ChunkTexts == SeqsUpTo(Chars, MaxTextLen)

\* chunkText(text, chunkSize, overlap) was called: chunks = [], position = 0
ChunkCalled ==
  /\ ctLegacy \in BOOLEAN
  /\ ctText \in ChunkTexts
  /\ ctChunkSize \in 1..MaxChunkSize
  /\ ctOverlap \in 0..MaxOverlap
  /\ ctPc = "loop"
  /\ ctPosition = 0
  /\ ctPrev = -1
  /\ ctChunks = <<>>
  /\ ctWindows = {}

\* no chunkText call is followed on its own
ChunkIdle ==
  /\ ctLegacy = FALSE
  /\ ctText = <<>>
  /\ ctChunkSize = DefaultChunkSize
  /\ ctOverlap = DefaultOverlap
  /\ ctPc = "idle"
  /\ ctPosition = 0
  /\ ctPrev = -1
  /\ ctChunks = <<>>
  /\ ctWindows = {}

\* one iteration of while (position < text.length)
ChunkIterate ==
  /\ ctPc = "loop"
  /\ ctPosition < Len(ctText)
  /\ LET end == IF ctLegacy THEN WindowEndLegacy(ctText, ctChunkSize, ctPosition)
                            ELSE WindowEnd(ctText, ctChunkSize, ctPosition)
         pushed == IF ctLegacy THEN PushChunkLegacy(ctChunks, ctText, ctPosition, end)
                               ELSE PushChunk(ctChunks, ctText, ctPosition, end)
     IN /\ ctChunks' = pushed
        /\ ctWindows' = ctWindows \cup {<<ctPosition, end>>}
        /\ ctPrev' = ctPosition
        /\ ctPosition' = NextPosition(end, ctOverlap, Len(pushed))
  /\ UNCHANGED <<archives, lastId, usage, jobs, importVars, req, ireq, otherVars, embedVars,
                 ctLegacy, ctText, ctChunkSize, ctOverlap, ctPc, searchVars, snippetVars>>

\* the loop test fails: return chunks
ChunkReturn ==
  /\ ctPc = "loop"
  /\ ctPosition >= Len(ctText)
  /\ ctPc' = "returned"
  /\ UNCHANGED <<archives, lastId, usage, jobs, importVars, req, ireq, otherVars, embedVars,
                 ctLegacy, ctText, ctChunkSize, ctOverlap, ctPosition, ctPrev, ctChunks, ctWindows,
                 searchVars, snippetVars>>

\* ------------------------------------- processArchiveWithSharedEmbeddings
Repeat(c, n) == [k \in 1..n |-> c]

\* archived_text values of the archives processed: a short page, and a page
\* long enough for chunkText's defaults to give a second chunk
ShortTextLen == 1
LongTextLen == 700
Texts == <<Repeat("a", ShortTextLen), Repeat("a", LongTextLen)>>
Title == <<"t">>
Description == <<>>

\* `${archive.title || ''}\n\n${archive.description || ''}\n\n${archive.archived_text || ''}`
FullText(t) == Title \o <<"\n", "\n">> \o Description \o <<"\n", "\n">> \o Texts[t]

\* chunkText(fullText) of each text, computed once
TextChunks == [t \in 1..Len(Texts) |-> chunkText(FullText(t), DefaultChunkSize, DefaultOverlap)]

\* sha256(`${url}:${content}`): SHA-256 is taken to be collision-free, so
\* the digest is represented by the string it is computed from
hashContent(url, content) == <<url, ":">> \o content

EmbedJobs == {1, 2}
NoArchive == [id |-> 0, user_id |-> "", url |-> "", text |-> 0]
NoJob == [pc |-> "none", archive |-> NoArchive, k |-> 0, contentId |-> 0,
          contentIds |-> <<>>, after |-> FALSE, existed |-> {}, answered |-> {},
          called |-> {}, nulls |-> {}, linkFailed |-> {}]

Chunks(j) == TextChunks[ejob[j].archive.text]
Chunk(j) == Chunks(j)[ejob[j].k]
\* the identity (content_hash, chunk_index) of the chunk job j is at
ChunkKey(j) ==
  [content_hash |-> hashContent(ejob[j].archive.url, Chunk(j).content),
   chunk_index |-> Chunk(j).index]

RowsOf(tbl, key) ==
  SelectSeq(tbl, LAMBDA r : r.content_hash = key.content_hash
                            /\ r.chunk_index = key.chunk_index)

\* rpc('get_or_create_content'): the id of the row of (p_content_hash,
\* p_chunk_index), created if there is none; atomic in the database
GetOrCreateContent(tbl, key) ==
  IF RowsOf(tbl, key) # <<>>
    THEN [table |-> tbl, id |-> RowsOf(tbl, key)[1].id]
    ELSE [table |-> Append(tbl, [id |-> Len(tbl) + 1,
                                 content_hash |-> key.content_hash,
                                 chunk_index |-> key.chunk_index,
                                 embedding |-> TRUE]),
          id |-> Len(tbl) + 1]

\* const { data: existingContent } = await ... .single(): the id of the one
\* matching row, or 0 (null) when the query failed or matched no row
ExistingContent(rows, ok) == IF ok /\ Len(rows) = 1 THEN rows[1].id ELSE 0

CountCall(c, key) ==
  IF key \in DOMAIN c THEN [c EXCEPT ![key] = @ + 1] ELSE c @@ (key :> 1)

\* the for loop goes to its next chunk, or the function returns contentIds
NextChunk(j, job) ==
  IF job.k < Len(Chunks(j))
    THEN [job EXCEPT !.k = @ + 1, !.pc = "lookup", !.contentId = 0]
    ELSE [job EXCEPT !.pc = "done", !.contentId = 0]

\* processArchiveWithSharedEmbeddings(archive, supabase) up to its first
\* await: nothing is done without a Gemini client; otherwise the text is
\* chunked and the lookup of the first chunk is issued
EmbedStart(j) ==
  /\ ejob[j].pc = "idle"
  /\ LET started == [ejob[j] EXCEPT
                       !.after = \A o \in EmbedJobs \ {j} : ejob[o].pc = "done"]
     IN IF ~genAI \/ Len(Chunks(j)) = 0
          THEN ejob' = [ejob EXCEPT ![j] = [started EXCEPT !.pc = "done"]]
          ELSE ejob' = [ejob EXCEPT ![j] = [started EXCEPT !.pc = "lookup", !.k = 1]]
  /\ UNCHANGED <<auxVars, archives, lastId, usage, jobs, importVars, req, genAI,
                 content_embeddings, user_content, calls>>

\* the lookup .eq('content_hash').eq('chunk_index').single() answers; only
\* data is read, so a failed query reads as "no row"
EmbedLookup(j, ok) ==
  /\ ejob[j].pc = "lookup"
  /\ LET rows == RowsOf(content_embeddings, ChunkKey(j))
         existing == ExistingContent(rows, ok)
         seen == [ejob[j] EXCEPT
                    !.existed = IF rows # <<>> THEN @ \cup {ChunkKey(j)} ELSE @,
                    !.answered = IF ok /\ rows # <<>> THEN @ \cup {ChunkKey(j)} ELSE @]
     IN IF existing # 0
          THEN ejob' = [ejob EXCEPT ![j] =
                          [seen EXCEPT !.contentId = existing,
                                       !.contentIds = Append(@, existing),
                                       !.pc = "link"]]
          ELSE ejob' = [ejob EXCEPT ![j] = [seen EXCEPT !.pc = "generate"]]
  /\ UNCHANGED <<auxVars, archives, lastId, usage, jobs, importVars, req, genAI,
                 content_embeddings, user_content, calls>>

\* generateEmbedding(chunk.content) answers with a vector (ok) or, after a
\* provider error, with null; without a vector nothing is stored or linked
EmbedGenerate(j, ok) ==
  /\ ejob[j].pc = "generate"
  /\ calls' = CountCall(calls, ChunkKey(j))
  /\ LET called == [ejob[j] EXCEPT !.called = @ \cup {ChunkKey(j)}]
     IN IF ok
          THEN ejob' = [ejob EXCEPT ![j] = [called EXCEPT !.pc = "store"]]
          ELSE ejob' = [ejob EXCEPT ![j] =
                          [called EXCEPT !.pc = "sleep",
                                         !.nulls = @ \cup {ChunkKey(j)}]]
  /\ UNCHANGED <<auxVars, archives, lastId, usage, jobs, importVars, req, genAI,
                 content_embeddings, user_content>>

\* rpc('get_or_create_content') answers: an error skips the chunk
\* (continue); otherwise the link upsert is issued with the id
EmbedStore(j, ok) ==
  /\ ejob[j].pc = "store"
  /\ IF ok
       THEN LET got == GetOrCreateContent(content_embeddings, ChunkKey(j))
            IN /\ content_embeddings' = got.table
               /\ ejob' = [ejob EXCEPT ![j].contentId = got.id,
                                       ![j].contentIds = Append(@, got.id),
                                       ![j].pc = "link"]
       ELSE /\ UNCHANGED content_embeddings
            /\ ejob' = [ejob EXCEPT ![j] = NextChunk(j, ejob[j])]
  /\ UNCHANGED <<auxVars, archives, lastId, usage, jobs, importVars, req, genAI, user_content, calls>>

\* the upsert into user_content answers; linkError is only logged
EmbedLink(j, ok) ==
  /\ ejob[j].pc = "link"
  /\ IF ok
       THEN user_content' = user_content \cup
              {[user_id |-> ejob[j].archive.user_id,
                content_id |-> ejob[j].contentId,
                archive_id |-> ejob[j].archive.id]}
       ELSE UNCHANGED user_content
  /\ ejob' = [ejob EXCEPT ![j].pc = "sleep",
                          ![j].linkFailed = IF ok THEN @ ELSE @ \cup {ChunkKey(j)}]
  /\ UNCHANGED <<auxVars, archives, lastId, usage, jobs, importVars, req, genAI,
                 content_embeddings, calls>>

\* the 50 ms timer at the end of the loop body fired
EmbedSleep(j) ==
  /\ ejob[j].pc = "sleep"
  /\ ejob' = [ejob EXCEPT ![j] = NextChunk(j, ejob[j])]
  /\ UNCHANGED <<auxVars, archives, lastId, usage, jobs, importVars, req, genAI,
                 content_embeddings, user_content, calls>>

\* ------------------------------------------------------- POST /api/search
\* Archive ids as property keys: "2" and "10" are integer-like (canonical
\* array indices), "x" and "y" are not.
ArchiveIds == {"2", "10", "x", "y"}
ArrayIndex == ("2" :> 2) @@ ("10" :> 10)
Scores == {1, 2}
\* archived_text: the hit carries the archive's text
Hits == [archive_id : ArchiveIds, relevance_score : Scores, archived_text : BOOLEAN]
DefaultLimit == 20

\* keys of an object whose properties were created in the order of obj:
\* the integer-like keys in ascending numeric order, then the other keys in
\* creation order (OrdinaryOwnPropertyKeys)
RECURSIVE AscendingIndexKeys(_)
AscendingIndexKeys(S) ==
  IF S = {} THEN <<>>
  ELSE LET least == CHOOSE x \in S : \A y \in S : ArrayIndex[x.id] <= ArrayIndex[y.id]
       IN <<least>> \o AscendingIndexKeys(S \ {least})

\* Object.values(groupedResults)
ObjectValues(obj) ==
  AscendingIndexKeys({obj[k] : k \in {n \in 1..Len(obj) : obj[n].id \in DOMAIN ArrayIndex}})
    \o SelectSeq(obj, LAMBDA g : g.id \notin DOMAIN ArrayIndex)

RECURSIVE InsertByRelevance(_, _)
\* g placed after every element that does not compare greater than it under
\* (a, b) => b.relevance_score - a.relevance_score
InsertByRelevance(sorted, g) ==
  IF sorted = <<>> THEN <<g>>
  ELSE IF g.relevance_score - Head(sorted).relevance_score > 0
         THEN <<g>> \o sorted
         ELSE <<Head(sorted)>> \o InsertByRelevance(Tail(sorted), g)

RECURSIVE SortByRelevance(_)
\* Array.prototype.sort with that comparator: a stable sort
SortByRelevance(list) ==
  IF list = <<>> THEN <<>>
  ELSE InsertByRelevance(SortByRelevance(SubSeq(list, 1, Len(list) - 1)), list[Len(list)])

\* hybridSearchWithSharedEmbeddings returned the hits
SearchCalled ==
  /\ shPc = "group"
  /\ shHits \in SeqsUpTo(Hits, MaxHits)
  /\ shK = 0
  /\ groupedResults = <<>>
  /\ finalResults = <<>>
  /\ shFetched = <<>>

SearchIdle ==
  /\ shPc = "idle"
  /\ shHits = <<>>
  /\ shK = 0
  /\ groupedResults = <<>>
  /\ finalResults = <<>>
  /\ shFetched = <<>>

\* the group of archiveId exists: groupedResults[archiveId] is set
HasGroup(groups, archiveId) == \E n \in 1..Len(groups) : groups[n].id = archiveId

\* variant: a later hit with a higher score raises the score of its group
GroupHitMaxScore(groups, result, k) ==
  IF ~HasGroup(groups, result.archive_id)
    THEN Append(groups, [id |-> result.archive_id,
                         relevance_score |-> result.relevance_score, first |-> k])
    ELSE [n \in 1..Len(groups) |->
            IF groups[n].id = result.archive_id
              THEN [groups[n] EXCEPT !.relevance_score = Max(@, result.relevance_score)]
              ELSE groups[n]]

\* the groups after hit number k: if (!groupedResults[archiveId]) the group
\* is created with the hit's relevance_score, else it is left as it is;
\* first records which hit created it
GroupHit(groups, result, k) ==
  IF ~HasGroup(groups, result.archive_id)
    THEN Append(groups, [id |-> result.archive_id,
                         relevance_score |-> result.relevance_score, first |-> k])
    ELSE groups

\* one iteration of for (const result of results) up to its await or its
\* end: for the first hit of an archive without archived_text the archives
\* query is issued and the handler waits for it, the group not yet created;
\* else the iteration is over
SearchGroupHit ==
  /\ shPc = "group"
  /\ shK < Len(shHits)
  /\ LET result == shHits[shK + 1]
     IN IF ~HasGroup(groupedResults, result.archive_id) /\ ~result.archived_text
          THEN /\ shFetched' = Append(shFetched, result.archive_id)
               /\ shPc' = "fetch"
               /\ UNCHANGED <<groupedResults, shK>>
          ELSE /\ groupedResults' = GroupHit(groupedResults, result, shK + 1)
               /\ shK' = shK + 1
               /\ UNCHANGED <<shFetched, shPc>>
  /\ UNCHANGED <<archives, lastId, usage, jobs, importVars, req, ireq, otherVars, embedVars, chunkVars,
                 snippetVars, shHits, finalResults>>

\* the archives query answers, with the row (found) or without (no row, or
\* an error, which is not read): the group is created with the hit's
\* relevance_score either way and the iteration is over
SearchFetched(found) ==
  /\ shPc = "fetch"
  /\ groupedResults' = GroupHit(groupedResults, shHits[shK + 1], shK + 1)
  /\ shK' = shK + 1
  /\ shPc' = "group"
  /\ UNCHANGED <<archives, lastId, usage, jobs, importVars, req, ireq, otherVars, embedVars, chunkVars,
                 snippetVars, shHits, finalResults, shFetched>>

\* after the loop: Object.values(...).sort(...).slice(0, parseInt(limit)) is
\* answered
SearchRespond ==
  /\ shPc = "group"
  /\ shK = Len(shHits)
  /\ LET sorted == SortByRelevance(ObjectValues(groupedResults))
     IN finalResults' = SubSeq(sorted, 1, Min(DefaultLimit, Len(sorted)))
  /\ shPc' = "responded"
  /\ UNCHANGED <<archives, lastId, usage, jobs, importVars, req, ireq, otherVars, embedVars, chunkVars,
                 snippetVars, shHits, shK, groupedResults, shFetched>>

\* --------------------------------------- extractSnippet, highlightTerms
\* String.prototype.toLowerCase on the characters the texts are made of
LowerChar(c) == IF c = "G" THEN "g" ELSE IF c = "E" THEN "e" ELSE c
ToLowerCase(str) == [k \in 1..Len(str) |-> LowerChar(str[k])]

\* text.slice(from, to) for any from >= 0 and to >= 0
SliceTo(text, from, to) == Slice(text, Min(from, Len(text)), Min(to, Len(text)))

\* text.includes(pat)
Includes(text, pat) ==
  \E n \in 0..(Len(text) - Len(pat)) : \A d \in 1..Len(pat) : text[n + d] = pat[d]

\* text.indexOf(pat, from): the smallest index >= from at which pat starts,
\* or -1
IndexOf(text, pat, from) ==
  LET at == {n \in from..(Len(text) - Len(pat)) :
               \A d \in 1..Len(pat) : text[n + d] = pat[d]}
  IN IF at = {} THEN -1 ELSE SetMin(at)

RECURSIVE SplitTerms(_, _)
\* str.split(/\s+/).filter(t => t.length > 2); word is the piece being read
SplitTerms(str, word) ==
  IF str = <<>>
    THEN IF Len(word) > 2 THEN <<word>> ELSE <<>>
    ELSE IF Head(str) \in Whitespace
      THEN (IF Len(word) > 2 THEN <<word>> ELSE <<>>) \o SplitTerms(Tail(str), <<>>)
      ELSE SplitTerms(Tail(str), Append(word, Head(str)))

\* number of query terms the window of text starting at w contains
WindowScore(textLower, queryTerms, w, maxLength) ==
  Cardinality({k \in 1..Len(queryTerms) :
                 Includes(SliceTo(textLower, w, w + maxLength), queryTerms[k])})

\* the for loop of extractSnippet: the first window start, in steps of 50
\* below text.length - 100, with the highest positive score; else 0
BestPos(textLower, queryTerms, maxLength) ==
  LET starts == {w \in 0..(Len(textLower) - 101) : w % 50 = 0}
      best == IF starts = {} THEN 0
              ELSE SetMax({WindowScore(textLower, queryTerms, w, maxLength) : w \in starts})
  IN IF best = 0 THEN 0
     ELSE SetMin({w \in starts : WindowScore(textLower, queryTerms, w, maxLength) = best})

extractSnippet(text, query, maxLength) ==
  IF text = <<>> THEN <<>>
  ELSE
    LET queryTerms == SplitTerms(ToLowerCase(query), <<>>)
        bestPos == BestPos(ToLowerCase(text), queryTerms, maxLength)
        start0 == Max(0, bestPos - 50)
        end0 == Min(Len(text), start0 + maxLength)
        spaceAfter == IndexOf(text, <<" ">>, start0)
        start == IF start0 > 0 /\ spaceAfter # -1 /\ spaceAfter < start0 + 20
                   THEN spaceAfter + 1 ELSE start0
        spaceBefore == LastIndexOf(text, <<" ">>, end0)
        end == IF end0 < Len(text) /\ spaceBefore # -1 /\ spaceBefore > end0 - 20
                 THEN spaceBefore ELSE end0
        snippet == Trim(Slice(text, start, end))
        opened == IF start > 0 THEN <<".", ".", ".">> \o snippet ELSE snippet
    IN IF end < Len(text) THEN opened \o <<".", ".", ".">> ELSE opened

RECURSIVE ReplaceTerm(_, _, _)
\* text.replace(new RegExp(`(${term})`, 'gi'), '**$1**') from index n on:
\* every match, read left to right and ignoring case, is wrapped
ReplaceTerm(text, term, n) ==
  LET at == IndexOf(ToLowerCase(text), ToLowerCase(term), n)
  IN IF at = -1 THEN Slice(text, n, Len(text))
     ELSE Slice(text, n, at)
            \o <<"*", "*">> \o Slice(text, at, at + Len(term)) \o <<"*", "*">>
            \o ReplaceTerm(text, term, at + Len(term))

RECURSIVE HighlightEach(_, _)
\* terms.forEach(term => highlighted = highlighted.replace(...))
HighlightEach(highlighted, terms) ==
  IF terms = <<>> THEN highlighted
  ELSE HighlightEach(ReplaceTerm(highlighted, Head(terms), 0), Tail(terms))

highlightTerms(text, query) ==
  IF text = <<>> \/ query = <<>> THEN text
  ELSE HighlightEach(text, SplitTerms(query, <<>>))

SnippetMaxLength == 300

\* the phrase, as typed in the query and as it may stand in a text
Phrase == <<"g", "e", "m", "i", "n", "i", " ",
            "e", "m", "b", "e", "d", "d", "i", "n", "g", "s">>
PhraseCapitalized == <<"G", "e", "m", "i", "n", "i", " ",
                       "E", "m", "b", "e", "d", "d", "i", "n", "g", "s">>
\* n characters of other text: one long word, or four-letter words
Filler(n, spaced) == [k \in 1..n |-> IF spaced /\ k % 5 = 0 THEN " " ELSE "x"]
\* archived texts that contain the phrase once
SnippetTexts ==
  {Filler(10 * b, spaced) \o ph \o Filler(150 * a, spaced) :
     b \in 0..MaxBeforeTens, a \in 0..MaxAfterBlocks, spaced \in BOOLEAN,
     ph \in {Phrase, PhraseCapitalized}}

\* the grouping loop reached extractSnippet(archived_text, query, 300)
SnippetCalled ==
  /\ snPc = "called"
  /\ snText \in SnippetTexts
  /\ snQuery = Phrase
  /\ snSnippet = <<>>
  /\ snHighlighted = <<>>

SnippetIdle ==
  /\ snPc = "idle"
  /\ snText = <<>>
  /\ snQuery = <<>>
  /\ snSnippet = <<>>
  /\ snHighlighted = <<>>

SnippetExtract ==
  /\ snPc = "called"
  /\ snSnippet' = extractSnippet(snText, snQuery, SnippetMaxLength)
  /\ snPc' = "extracted"
  /\ UNCHANGED <<archives, lastId, usage, jobs, importVars, req, ireq, otherVars, embedVars, chunkVars,
                 searchVars, snText, snQuery, snHighlighted>>

SnippetHighlight ==
  /\ snPc = "extracted"
  /\ snHighlighted' = highlightTerms(snSnippet, snQuery)
  /\ snPc' = "highlighted"
  /\ UNCHANGED <<archives, lastId, usage, jobs, importVars, req, ireq, otherVars, embedVars, chunkVars,
                 searchVars, snText, snQuery, snSnippet>>

\* ------------------------------------------------- POST /api/pocket/import
\* A csvContent is a sequence of lines and a line a sequence of cells; the
\* empty sequence of lines is the empty string.
CsvLines == {<<"URL", "Title">>, <<"name", "link">>, <<"http://a", "A">>,
             <<"http://b", "B">>, <<"note", "see http://a">>, <<>>}
CsvContents == SeqsUpTo(CsvLines, MaxCsvLines)

\* cell.toLowerCase().includes('url'), ...includes('title')
CellIncludesUrl(cell) == cell \in {"URL"}
CellIncludesTitle(cell) == cell \in {"Title"}
\* cell.includes('http'), cell.startsWith('http')
CellIncludesHttp(cell) == cell \in {"http://a", "http://b", "see http://a"}
CellStartsWithHttp(cell) == cell \in {"http://a", "http://b"}

\* header.includes('url') && header.includes('title')
HeaderHasColumns(line) ==
  /\ \E c \in 1..Len(line) : CellIncludesUrl(line[c])
  /\ \E c \in 1..Len(line) : CellIncludesTitle(line[c])

\* line && line.includes('http')
LineIncludesHttp(line) == \E c \in 1..Len(line) : CellIncludesHttp(line[c])

\* variant: the content is accepted whatever it holds
AcceptAnyCSV(csvContent) == TRUE

\* validatePocketCSV returns true (TRUE) or throws (FALSE)
validatePocketCSV(csvContent) ==
  /\ Len(csvContent) >= 2
  /\ HeaderHasColumns(csvContent[1])
  /\ \E n \in 2..Min(Len(csvContent), 10) : LineIncludesHttp(csvContent[n])

RECURSIVE parsePocketCSV(_)
\* the items csv-parser's rows give, by url: with the headers option every
\* line is a data row whose first cell is data.url; a row is kept when its
\* url is not empty, is not 'URL' and starts with 'http'
parsePocketCSV(csvContent) ==
  IF csvContent = <<>> THEN <<>>
  ELSE LET row == Head(csvContent)
       IN IF row # <<>> /\ row[1] # "URL" /\ CellStartsWithHttp(row[1])
            THEN <<row[1]>> \o parsePocketCSV(Tail(csvContent))
            ELSE parsePocketCSV(Tail(csvContent))

RouteDefaultBatchSize == 3
IdleImportReq == [pc |-> "idle", csvContent |-> <<>>, userId |-> "", batchSize |-> 0,
                  urls |-> <<>>, status |-> 0]

PocketRouteIdle == ireq = IdleImportReq

\* the request arrives: body check and validatePocketCSV; then parsePocketCSV
\* is awaited. opt is options.batchSize (0: not given)
PocketImportStart(csvContent, user, opt) ==
  /\ ireq.pc = "idle"
  /\ LET arrived == [ireq EXCEPT !.csvContent = csvContent, !.userId = user,
                                 !.batchSize = opt]
     IN IF csvContent = <<>> \/ user = ""
          THEN ireq' = [arrived EXCEPT !.pc = "done", !.status = 400]
          ELSE IF ~validatePocketCSV(csvContent)
            THEN ireq' = [arrived EXCEPT !.pc = "done", !.status = 500]
            ELSE ireq' = [arrived EXCEPT !.pc = "parse"]
  /\ UNCHANGED <<archives, lastId, usage, jobs, importVars, req, embedVars, chunkVars,
                 searchVars, snippetVars, otherVars>>

\* parsePocketCSV resolved: no item is a 400; else the user profile is queried
PocketImportParsed ==
  /\ ireq.pc = "parse"
  /\ LET list == parsePocketCSV(ireq.csvContent)
     IN IF Len(list) = 0
          THEN ireq' = [ireq EXCEPT !.pc = "done", !.status = 400]
          ELSE ireq' = [ireq EXCEPT !.pc = "quota", !.urls = list]
  /\ UNCHANGED <<archives, lastId, usage, jobs, importVars, req, embedVars, chunkVars,
                 searchVars, snippetVars, otherVars>>

\* the profile query answered: limit is monthly_archive_limit, or -1 when no
\* profile was returned. Over the limit is a 429; else the request answers
\* 200 and processPocketImport is called
PocketImportQuota(limit) ==
  /\ ireq.pc = "quota"
  /\ IF limit # -1 /\ Len(ireq.urls) > limit
       THEN /\ ireq' = [ireq EXCEPT !.pc = "done", !.status = 429]
            /\ UNCHANGED <<archives, lastId, usage, jobs, importVars, req, embedVars>>
       ELSE /\ ireq' = [ireq EXCEPT !.pc = "done", !.status = 200]
            /\ prevFailed' = prevFailed
            /\ BeginRun(ireq.urls, ireq.userId,
                        IF ireq.batchSize = 0 THEN RouteDefaultBatchSize
                                              ELSE ireq.batchSize)
            /\ UNCHANGED <<archives, lastId, usage, jobs, req, embedVars>>
  /\ UNCHANGED <<chunkVars, searchVars, snippetVars, otherVars>>

\* -------------------- POST /api/admin/dedupe and findAndRemoveDuplicates
\* a table of at most MaxRows rows, in creation order
DedupeTables ==
  {[k \in 1..Len(q) |-> [id |-> k, user_id |-> q[k][1], url |-> q[k][2]]] :
     q \in SeqsUpTo(Users \X URLs, MaxRows)}

\* .select().eq('user_id', u).order('created_at', {ascending: true}): the
\* user's rows, oldest first
SelectByUser(tbl, u) == SelectSeq(tbl, LAMBDA r : r.user_id = u)

RECURSIVE FirstSeenUrls(_)
\* Object.keys(urlGroups): the urls in the order their group was created
FirstSeenUrls(rows) ==
  IF rows = <<>> THEN <<>>
  ELSE LET before == FirstSeenUrls(SubSeq(rows, 1, Len(rows) - 1))
           u == rows[Len(rows)].url
       IN IF \E n \in 1..Len(before) : before[n] = u THEN before ELSE Append(before, u)

\* urlGroups[url]
UrlGroup(rows, url) == SelectSeq(rows, LAMBDA r : r.url = url)

RECURSIVE MarkedIds(_, _, _)
\* variant: every copy of a duplicated url is marked, the first included
MarkedIdsFromFirst(rows, keys, n) ==
  IF n > Len(keys) THEN <<>>
  ELSE LET copies == UrlGroup(rows, keys[n])
       IN (IF Len(copies) > 1
             THEN [k \in 1..Len(copies) |-> copies[k].id]
             ELSE <<>>) \o MarkedIds(rows, keys, n + 1)

\* duplicateUrls.forEach: for each url with more than one row, the ids of
\* its rows after the first
MarkedIds(rows, keys, n) ==
  IF n > Len(keys) THEN <<>>
  ELSE LET copies == UrlGroup(rows, keys[n])
       IN (IF Len(copies) > 1
             THEN [k \in 1..(Len(copies) - 1) |-> copies[k + 1].id]
             ELSE <<>>) \o MarkedIds(rows, keys, n + 1)

\* .delete().in('id', ids)
DeleteIn(tbl, ids) == SelectSeq(tbl, LAMBDA r : r.id \notin ids)

\* finalCount undefined or null
NullCount == -1

IdleDedupe ==
  [pc |-> "idle", script |-> FALSE, userId |-> "", rows |-> <<>>, idsToDelete |-> <<>>,
   i |-> 0, deleted |-> 0, finalCount |-> NullCount, status |-> 0,
   before |-> <<>>, failedIds |-> {}]

DedupeIdle == dd = IdleDedupe

\* the run starts: the route reads the caller's profile, the script looks for
\* an admin user; without an admin the route answers 403 and the script
\* returns. before is the table as the run found it (not stored by the code).
DedupeStart(script, user, isAdmin) ==
  /\ dd.pc = "idle"
  /\ dd' = IF isAdmin
             THEN [dd EXCEPT !.pc = "select", !.script = script, !.userId = user,
                             !.before = archives]
             ELSE [dd EXCEPT !.pc = "done", !.script = script,
                             !.status = IF script THEN 0 ELSE 403,
                             !.before = archives]
  /\ UNCHANGED <<archives, lastId, usage, jobs, importVars, req, ireq, embedVars, chunkVars,
                 searchVars, snippetVars, kg>>

\* the archives query answers: an error is thrown to the catch block (500);
\* without duplicates the run is over; else the delete loop starts
DedupeSelect(ok) ==
  /\ dd.pc = "select"
  /\ LET rows == SelectByUser(archives, dd.userId)
         ids == MarkedIds(rows, FirstSeenUrls(rows), 1)
     IN dd' = IF ~ok
                THEN [dd EXCEPT !.pc = "done", !.status = IF dd.script THEN 0 ELSE 500]
              ELSE IF Len(ids) = 0
                THEN [dd EXCEPT !.pc = "done", !.rows = rows,
                                !.status = IF dd.script THEN 0 ELSE 200]
              ELSE [dd EXCEPT !.pc = "delete", !.rows = rows, !.idsToDelete = ids]
  /\ UNCHANGED <<archives, lastId, usage, jobs, importVars, req, ireq, embedVars, chunkVars,
                 searchVars, snippetVars, kg>>

\* one iteration of the delete loop: the delete of a batch answers; on
\* deleteError the loop continues with the next batch
DedupeDelete(ok) ==
  /\ dd.pc = "delete"
  /\ LET hi == Min(dd.i + DedupeBatchSize, Len(dd.idsToDelete))
         batch == {dd.idsToDelete[k] : k \in (dd.i + 1)..hi}
         more == dd.i + DedupeBatchSize < Len(dd.idsToDelete)
     IN /\ archives' = IF ok THEN DeleteIn(archives, batch) ELSE archives
        /\ dd' = [dd EXCEPT !.i = dd.i + DedupeBatchSize,
                            !.deleted = IF ok THEN @ + Cardinality(batch) ELSE @,
                            !.failedIds = IF ok THEN @ ELSE @ \cup batch,
                            !.pc = IF more THEN "delete" ELSE "count"]
  /\ UNCHANGED <<lastId, usage, jobs, importVars, req, ireq, embedVars, chunkVars,
                 searchVars, snippetVars, kg>>

\* the final count query answers and the run reports: its error is not
\* read, a failed query leaves finalCount null (NullCount)
DedupeCount(ok) ==
  /\ dd.pc = "count"
  /\ dd' = [dd EXCEPT !.pc = "done", !.status = IF dd.script THEN 0 ELSE 200,
                      !.finalCount = IF ok THEN Len(SelectByUser(archives, dd.userId))
                                     ELSE NullCount]
  /\ UNCHANGED <<archives, lastId, usage, jobs, importVars, req, ireq, embedVars, chunkVars,
                 searchVars, snippetVars, kg>>

DedupeStep ==
  \/ \E script \in BOOLEAN, user \in Users, isAdmin \in BOOLEAN :
       DedupeStart(script, user, isAdmin)
  \/ \E ok \in BOOLEAN : DedupeSelect(ok)
  \/ \E ok \in BOOLEAN : DedupeDelete(ok)
  \/ \E ok \in BOOLEAN : DedupeCount(ok)

\* ------------------------------------- processArticleForKnowledgeGraph
\* the calls in progress at a time: POST /api/archive starts one without
\* awaiting it, POST /api/knowledge-graph/process-article awaits one
KgCalls == 1..MaxKgCalls
RelationshipTypes == {"related_to"}
\* names and types of the entities the extraction returns
EntityNames == {"A", "B"}
EntityTypes == {"concept", "organization"}
ExtractedEntities == [name : EntityNames, type : EntityTypes]
\* a relationship names its two entities
Relationships == [from_entity : EntityNames, to_entity : EntityNames,
                  relationship_type : RelationshipTypes]
NoEntityId == 0
EmptyMap == [name \in {} |-> NoEntityId]

\* .from('entities').select('id').eq('user_id', u).eq('name', name)
\* .eq('type', type): the matching rows, in creation order
EntitiesNamed(tbl, u, name, type) ==
  SelectSeq(tbl, LAMBDA r : r.user_id = u /\ r.name = name /\ r.type = type)

\* .from('relationships').select('id').eq('user_id', u)
\* .eq('from_entity_id', f).eq('to_entity_id', t).eq('relationship_type', ty)
RelationshipsBetween(tbl, u, f, t, ty) ==
  SelectSeq(tbl, LAMBDA r : /\ r.user_id = u
                            /\ r.from_entity_id = f /\ r.to_entity_id = t
                            /\ r.relationship_type = ty)

\* .from('article_entities').select('id').eq('user_id', u)
\* .eq('article_id', a).eq('entity_id', e)
LinksOf(tbl, u, a, e) ==
  SelectSeq(tbl, LAMBDA r : r.user_id = u /\ r.article_id = a /\ r.entity_id = e)

\* const { data } = await query.single(): the row when the query answers
\* and exactly one row matches, else null; the error is not read
SingleFound(ok, rows) == ok /\ Len(rows) = 1

RECURSIVE BuildEntitiesMap(_, _, _)
\* savedEntities.forEach((entity, index) =>
\*   entitiesMap[extracted[index].name] = entity.id), for the first n entries
BuildEntitiesMap(savedEntities, extracted, n) ==
  IF n = 0 THEN EmptyMap
  ELSE (extracted[n].name :> savedEntities[n])
         @@ BuildEntitiesMap(savedEntities, extracted, n - 1)

\* entitiesMap[name], undefined as NoEntityId
MapGet(map, name) == IF name \in DOMAIN map THEN map[name] ELSE NoEntityId

RECURSIVE NextRelationship(_, _, _)
\* saveRelationships' loop from index n up to its next await: relationships
\* with an unmapped name are skipped with continue; Len + 1 when none is left
NextRelationship(relationships, map, n) ==
  IF n > Len(relationships) THEN n
  ELSE IF \/ MapGet(map, relationships[n].from_entity) = NoEntityId
          \/ MapGet(map, relationships[n].to_entity) = NoEntityId
    THEN NextRelationship(relationships, map, n + 1)
  ELSE n

\* the article the calls process and its owner: the archives query of
\* processArticleForKnowledgeGraph finds the article for its owner only
KgArticle == [id |-> 1, user_id |-> "u1"]

IdleCall ==
  [pc |-> "idle", articleId |-> 0, userId |-> "", entities |-> <<>>,
   relationships |-> <<>>, k |-> 0, savedEntities |-> <<>>, entitiesMap |-> EmptyMap]

\* kg.table is the entities table, kg.stored the relationships table and
\* kg.links the article_entities table; stored and links keep, beside the
\* columns, the names the row was written for
IdleKg ==
  [table |-> <<>>, stored |-> <<>>, links |-> <<>>,
   extracted |-> [entities |-> <<>>, relationships |-> <<>>],
   call |-> [c \in KgCalls |-> IdleCall]]

KgIdle == kg = IdleKg

\* before the calls: the entities table is empty or holds the organization A
\* of a user from an earlier article; kg.extracted is what
\* extractEntitiesAndRelationships returns for the article, with at least
\* one entity
KgTables ==
  \E owner \in Users, n \in 0..1,
     es \in SeqsUpTo(ExtractedEntities, MaxEntities) \ {<<>>},
     rs \in SeqsUpTo(Relationships, MaxRelationships) :
    kg = [IdleKg EXCEPT
            !.table = [k \in 1..n |-> [id |-> k, user_id |-> owner, name |-> "A",
                                       type |-> "organization"]],
            !.extracted = [entities |-> es, relationships |-> rs]]

KgUnchanged ==
  UNCHANGED <<archives, lastId, usage, jobs, importVars, req, ireq, embedVars, chunkVars,
              searchVars, snippetVars, dd>>

\* processArticleForKnowledgeGraph(articleId, userId) after
\* extractEntitiesAndRelationships returned at least one entity: saveEntities
\* is called and issues the lookup of the first entity
KgCalled(c) ==
  /\ kg.call[c].pc = "idle"
  /\ kg' = [kg EXCEPT !.call[c] = [IdleCall EXCEPT !.pc = "lookup",
                                                   !.articleId = KgArticle.id,
                                                   !.userId = KgArticle.user_id,
                                                   !.entities = kg.extracted.entities,
                                                   !.relationships = kg.extracted.relationships]]
  /\ KgUnchanged

\* saveEntities after the entity at index k + 1 was pushed or skipped: the
\* next lookup is issued, or the function returns
AfterEntity(call) == IF call.k + 1 < Len(call.entities) THEN "lookup" ELSE "map"

\* the existing-entity lookup of saveEntities answers: an existing entity is
\* pushed, else the insert is issued
KgEntityLookup(c, ok) ==
  /\ kg.call[c].pc = "lookup"
  /\ LET call == kg.call[c]
         entity == call.entities[call.k + 1]
         found == EntitiesNamed(kg.table, call.userId, entity.name, entity.type)
     IN kg' = IF SingleFound(ok, found)
                THEN [kg EXCEPT !.call[c].savedEntities = Append(@, found[1].id),
                                !.call[c].k = @ + 1,
                                !.call[c].pc = AfterEntity(call)]
                ELSE [kg EXCEPT !.call[c].pc = "insert"]
  /\ KgUnchanged

\* the insert of saveEntities answers: the new row is pushed, or the insert
\* failed and the entity is skipped
KgEntityInsert(c, ok) ==
  /\ kg.call[c].pc = "insert"
  /\ LET call == kg.call[c]
         entity == call.entities[call.k + 1]
         newId == Len(kg.table) + 1
     IN kg' = IF ok
                THEN [kg EXCEPT !.table = Append(@, [id |-> newId, user_id |-> call.userId,
                                                     name |-> entity.name,
                                                     type |-> entity.type]),
                                !.call[c].savedEntities = Append(@, newId),
                                !.call[c].k = @ + 1,
                                !.call[c].pc = AfterEntity(call)]
                ELSE [kg EXCEPT !.call[c].k = @ + 1, !.call[c].pc = AfterEntity(call)]
  /\ KgUnchanged

\* linkEntitiesToArticle is called: it issues the lookup of the first
\* entity id, or returns at once
ToLinks(call) == IF call.savedEntities = <<>> THEN "done" ELSE "linkLookup"

\* saveRelationships from index n: the lookup of the next relationship with
\* both names mapped is issued, or the function returns and the links follow
RelationshipsFrom(c, map, n) ==
  LET call == kg.call[c]
      m == NextRelationship(call.relationships, map, n)
  IN IF m <= Len(call.relationships)
       THEN [kg EXCEPT !.call[c].entitiesMap = map, !.call[c].pc = "relLookup",
                       !.call[c].k = m - 1]
       ELSE [kg EXCEPT !.call[c].entitiesMap = map, !.call[c].pc = ToLinks(call),
                       !.call[c].k = 0]

\* saveEntities returned: the name to id map is built from savedEntities by
\* index and saveRelationships is called
KgBuildMap(c) ==
  /\ kg.call[c].pc = "map"
  /\ LET call == kg.call[c]
     IN kg' = RelationshipsFrom(c, BuildEntitiesMap(call.savedEntities, call.entities,
                                                    Len(call.savedEntities)), 1)
  /\ KgUnchanged

\* the existing-relationship lookup of saveRelationships answers: an
\* existing relationship is pushed, else the insert is issued
KgRelationshipLookup(c, ok) ==
  /\ kg.call[c].pc = "relLookup"
  /\ LET call == kg.call[c]
         relationship == call.relationships[call.k + 1]
         found == RelationshipsBetween(kg.stored, call.userId,
                                       MapGet(call.entitiesMap, relationship.from_entity),
                                       MapGet(call.entitiesMap, relationship.to_entity),
                                       relationship.relationship_type)
     IN kg' = IF SingleFound(ok, found)
                THEN RelationshipsFrom(c, call.entitiesMap, call.k + 2)
                ELSE [kg EXCEPT !.call[c].pc = "relInsert"]
  /\ KgUnchanged

\* the insert of saveRelationships answers: the relationship is stored
\* between the mapped ids, or the insert failed and it is skipped
KgRelationshipInsert(c, ok) ==
  /\ kg.call[c].pc = "relInsert"
  /\ LET call == kg.call[c]
         relationship == call.relationships[call.k + 1]
         row == [user_id |-> call.userId,
                 from_entity_id |-> MapGet(call.entitiesMap, relationship.from_entity),
                 to_entity_id |-> MapGet(call.entitiesMap, relationship.to_entity),
                 relationship_type |-> relationship.relationship_type,
                 from_entity |-> relationship.from_entity,
                 to_entity |-> relationship.to_entity]
         next == RelationshipsFrom(c, call.entitiesMap, call.k + 2)
     IN kg' = IF ok THEN [next EXCEPT !.stored = Append(@, row)] ELSE next
  /\ KgUnchanged

\* linkEntitiesToArticle after index k + 1: the next lookup is issued, or the
\* function returns
AfterLink(call) == IF call.k + 1 < Len(call.savedEntities) THEN "linkLookup" ELSE "done"

\* the existing-link lookup of linkEntitiesToArticle answers: an existing
\* link is left, else the insert is issued
KgLinkLookup(c, ok) ==
  /\ kg.call[c].pc = "linkLookup"
  /\ LET call == kg.call[c]
         found == LinksOf(kg.links, call.userId, call.articleId,
                          call.savedEntities[call.k + 1])
     IN kg' = IF SingleFound(ok, found)
                THEN [kg EXCEPT !.call[c].pc = AfterLink(call), !.call[c].k = @ + 1]
                ELSE [kg EXCEPT !.call[c].pc = "linkInsert"]
  /\ KgUnchanged

\* the insert of linkEntitiesToArticle answers; its error is not read:
\* entityIds[i] is linked with the name of extractedEntities[i], or not
KgLinkInsert(c, ok) ==
  /\ kg.call[c].pc = "linkInsert"
  /\ LET call == kg.call[c]
         row == [user_id |-> call.userId, article_id |-> call.articleId,
                 entity_id |-> call.savedEntities[call.k + 1],
                 name |-> call.entities[call.k + 1].name]
         next == [kg EXCEPT !.call[c].pc = AfterLink(call), !.call[c].k = @ + 1]
     IN kg' = IF ok THEN [next EXCEPT !.links = Append(@, row)] ELSE next
  /\ KgUnchanged

KgStep ==
  \E c \in KgCalls :
    \/ KgCalled(c)
    \/ \E ok \in BOOLEAN : KgEntityLookup(c, ok)
    \/ \E ok \in BOOLEAN : KgEntityInsert(c, ok)
    \/ KgBuildMap(c)
    \/ \E ok \in BOOLEAN : KgRelationshipLookup(c, ok)
    \/ \E ok \in BOOLEAN : KgRelationshipInsert(c, ok)
    \/ \E ok \in BOOLEAN : KgLinkLookup(c, ok)
    \/ \E ok \in BOOLEAN : KgLinkInsert(c, ok)

\* ------------------------------------------------------------ the system
\* empty store, no request, no import run and no embedding execution
NoRunNoRequest ==
  /\ lastId = Len(archives)
  /\ usage = [u \in Users |-> 0]
  /\ jobs = {}
  /\ runNo = 0
  /\ prevFailed = -1
  /\ prevCount = 0
  /\ dupFailed = FALSE
  /\ dupLog = <<>>
  /\ urls = <<>> /\ userId = "" /\ batchSize = 1
  /\ pc = "idle"
  /\ existingUrls = {} /\ dupI = 0
  /\ newUrls = <<>> /\ duplicates = <<>>
  /\ i = 0
  /\ slots = <<>>
  /\ results = [total |-> 0, successful |-> 0, failed |-> 0, skipped |-> 0,
                duplicates |-> 0, results |-> <<>>]
  /\ progress = <<>>
  /\ sleeps = 0
  /\ req = [q \in Reqs |-> IdleReq]
  /\ genAI = TRUE
  /\ content_embeddings = <<>>
  /\ user_content = {}
  /\ calls = <<>>
  /\ ejob = [j \in EmbedJobs |-> NoJob]

ArchivePathIdle == archives = <<>> /\ NoRunNoRequest

\* no run beside the archive, import, embedding, search and snippet paths
OtherIdle == DedupeIdle /\ KgIdle

Init == ArchivePathIdle /\ ChunkIdle /\ SearchIdle /\ SnippetIdle /\ PocketRouteIdle /\ OtherIdle

ImportStep ==
  \/ \E list \in ItemLists, user \in Users, bs \in 1..MaxBatchSize :
       StartImport(list, user, bs)
  \/ \E ok \in BOOLEAN : DupQuery(ok)
  \/ \E k \in 1..MaxBatchSize, ok \in BOOLEAN : ItemCheck(k, ok)
  \/ \E k \in 1..MaxBatchSize, ok \in BOOLEAN : ItemExtract(k, ok)
  \/ \E k \in 1..MaxBatchSize, ok \in BOOLEAN : ItemInsert(k, ok)
  \/ SettleBatch
  \/ DelayDone

RequestStep ==
  \E q \in Reqs :
    \/ \E u \in ReqUrls, user \in Users : ReqStart(q, u, user)
    \/ \E ok \in BOOLEAN : ReqCheck(q, ok)
    \/ \E out \in {"error", "denied", "allowed"} : ReqUsage(q, out)
    \/ \E ok \in BOOLEAN : ReqExtract(q, ok)
    \/ \E ok \in BOOLEAN : ReqInsert(q, ok)
    \/ \E id \in 1..lastId, user \in Users : ReqDeleteStart(q, id, user)
    \/ \E ok \in BOOLEAN : ReqDeleteStorage(q, ok)
    \/ \E ok \in BOOLEAN : ReqDelete(q, ok)

\* import runs and single-page archive requests, interleaved
Next == ImportStep \/ RequestStep

Spec == Init /\ [][Next]_vars

\* Every continuation of a run is resumed: the event loop runs each pending
\* callback, every collaborator call answers or fails (each has a timeout),
\* and every timer fires.
FairSpec == Spec /\ WF_vars(ImportStep)

\* an import run followed by a second import of the same list
NextReimport == ImportStep \/ ReImport

SpecReimport == Init /\ [][NextReimport]_vars

\* Two archives have been created and their background processing started:
\* the first by user u1, the second by either user, for either url, each with
\* either text. The Gemini client is configured or not.
InitEmbed ==
  /\ \E t1, t2 \in 1..Len(Texts), user \in Users, u \in URLs :
       /\ archives = <<[id |-> 1, user_id |-> "u1", url |-> "http://a"],
                       [id |-> 2, user_id |-> user, url |-> u]>>
       /\ ejob = [j \in EmbedJobs |->
                   [NoJob EXCEPT
                      !.pc = "idle",
                      !.archive = IF j = 1
                        THEN [id |-> 1, user_id |-> "u1", url |-> "http://a", text |-> t1]
                        ELSE [id |-> 2, user_id |-> user, url |-> u, text |-> t2]]]
  /\ lastId = 2
  /\ usage = [u \in Users |-> 0]
  /\ jobs = {1, 2}
  /\ runNo = 0
  /\ prevFailed = -1
  /\ prevCount = 0
  /\ dupFailed = FALSE
  /\ dupLog = <<>>
  /\ urls = <<>> /\ userId = "" /\ batchSize = 1
  /\ pc = "idle"
  /\ existingUrls = {} /\ dupI = 0
  /\ newUrls = <<>> /\ duplicates = <<>>
  /\ i = 0
  /\ slots = <<>>
  /\ results = [total |-> 0, successful |-> 0, failed |-> 0, skipped |-> 0,
                duplicates |-> 0, results |-> <<>>]
  /\ progress = <<>>
  /\ sleeps = 0
  /\ req = [q \in Reqs |-> IdleReq]
  /\ genAI \in BOOLEAN
  /\ content_embeddings = <<>>
  /\ user_content = {}
  /\ calls = <<>>
  /\ ChunkIdle /\ SearchIdle /\ SnippetIdle /\ PocketRouteIdle /\ OtherIdle

NextEmbed ==
  \E j \in EmbedJobs :
    \/ EmbedStart(j)
    \/ \E ok \in BOOLEAN : EmbedLookup(j, ok)
    \/ \E ok \in BOOLEAN : EmbedGenerate(j, ok)
    \/ \E ok \in BOOLEAN : EmbedStore(j, ok)
    \/ \E ok \in BOOLEAN : EmbedLink(j, ok)
    \/ EmbedSleep(j)

SpecEmbed == InitEmbed /\ [][NextEmbed]_vars

\* a chunkText call on its own, for either version of the function
InitChunk == ArchivePathIdle /\ ChunkCalled /\ SearchIdle /\ SnippetIdle /\ PocketRouteIdle /\ OtherIdle

ChunkStep == ChunkIterate \/ ChunkReturn

SpecChunk == InitChunk /\ [][ChunkStep]_vars

\* the calls with the smaller arguments, followed until they return
InitChunkLoop ==
  /\ InitChunk
  /\ Len(ctText) <= MaxLoopTextLen
  /\ ctChunkSize <= MaxLoopChunkSize
  /\ ctOverlap <= MaxLoopOverlap

\* chunkText is synchronous: its loop keeps running
FairChunk == InitChunkLoop /\ [][ChunkStep]_vars /\ WF_vars(ChunkStep)

\* a POST /api/search request whose retrieval has answered
InitSearch == ArchivePathIdle /\ ChunkIdle /\ SearchCalled /\ SnippetIdle /\ PocketRouteIdle /\ OtherIdle

SearchStep ==
  \/ SearchGroupHit
  \/ \E found \in BOOLEAN : SearchFetched(found)
  \/ SearchRespond

SpecSearch == InitSearch /\ [][SearchStep]_vars

\* the snippet of one group of a POST /api/search answer
InitSnippet == ArchivePathIdle /\ ChunkIdle /\ SearchIdle /\ SnippetCalled /\ PocketRouteIdle /\ OtherIdle

SnippetStep == SnippetExtract \/ SnippetHighlight

SpecSnippet == InitSnippet /\ [][SnippetStep]_vars

\* the steps of a processPocketImport run once it was called
RunStep ==
  \/ \E ok \in BOOLEAN : DupQuery(ok)
  \/ \E k \in 1..RouteDefaultBatchSize, ok \in BOOLEAN : ItemCheck(k, ok)
  \/ \E k \in 1..RouteDefaultBatchSize, ok \in BOOLEAN : ItemExtract(k, ok)
  \/ \E k \in 1..RouteDefaultBatchSize, ok \in BOOLEAN : ItemInsert(k, ok)
  \/ SettleBatch
  \/ DelayDone

PocketRouteStep ==
  \/ \E csvContent \in CsvContents, user \in Users \cup {""}, opt \in 0..MaxBatchSize :
       PocketImportStart(csvContent, user, opt)
  \/ PocketImportParsed
  \/ \E limit \in {-1, 1, MaxCsvLines} : PocketImportQuota(limit)

\* one POST /api/pocket/import request and the run it may start
NextPocketRoute == PocketRouteStep \/ RunStep

SpecPocketRoute == Init /\ [][NextPocketRoute]_vars

\* a deduplication run over a table that earlier requests and imports left
InitDedupe ==
  /\ archives \in DedupeTables
  /\ NoRunNoRequest
  /\ ChunkIdle /\ SearchIdle /\ SnippetIdle /\ PocketRouteIdle /\ OtherIdle

SpecDedupe == InitDedupe /\ [][DedupeStep]_vars

\* one processArticleForKnowledgeGraph call
InitKg ==
  /\ ArchivePathIdle
  /\ ChunkIdle /\ SearchIdle /\ SnippetIdle /\ PocketRouteIdle /\ DedupeIdle
  /\ KgTables

SpecKg == InitKg /\ [][KgStep]_vars

\* ================================================================ claims
Returned == pc = "returned"
Entries == results.results
Range(q) == {q[k] : k \in 1..Len(q)}
EntriesOf(p) == {k \in 1..Len(Entries) : Entries[k].item = p}
Occurrences(q, x) == Cardinality({k \in 1..Len(q) : q[k] = x})

\* C1: the archives store never holds two ArchiveRecords with the same
\* (user_id, url), whatever import runs and archive requests did.
C1_NoDuplicateArchives ==
  \A a, b \in 1..Len(archives) :
    (archives[a].user_id = archives[b].user_id /\ archives[a].url = archives[b].url)
      => a = b

\* C2: the summary processPocketImport returns satisfies
\* total = successful + failed + skipped.
C2_TotalIsSum ==
  Returned => results.total = results.successful + results.failed + results.skipped

\* a returned run that had a pre-existing duplicate, archived an item and
\* skipped another one at the per-item re-check
C2_Witness ==
  /\ Returned
  /\ results.total = 3
  /\ results.duplicates = 1
  /\ results.successful = 1
  /\ results.skipped = 2

\* C3: the returned results sequence has exactly one entry for each item of
\* newUrls and none for an item of duplicates.
C3_OneEntryPerNewItem ==
  Returned =>
    /\ \A p \in Range(newUrls) : Cardinality(EntriesOf(p)) = 1
    /\ \A p \in Range(duplicates) : EntriesOf(p) = {}
    /\ Len(Entries) = Len(newUrls)

\* a returned run over two batches with a pre-existing duplicate
C3_Witness ==
  /\ Returned
  /\ Len(newUrls) = 2
  /\ Len(duplicates) = 1
  /\ batchSize = 1
  /\ Entries[1].success /\ ~Entries[2].success

\* C4: an item whose extraction failed on every attempt appears once in
\* results with success = false, after maxRetries + 1 extraction calls.
C4_RetryBound ==
  Returned =>
    \A k \in 1..Len(Entries) :
      (Entries[k].attempts >= 1 /\ Entries[k].extracted = 0) =>
        /\ ~Entries[k].success
        /\ Cardinality(EntriesOf(Entries[k].item)) = 1
        /\ Entries[k].attempts = maxRetries + 1

\* C5: a run that started returns a summary with a result for every item it
\* had to process, whatever failed on the way.
C5_RunReturns ==
  (pc # "idle") ~> (Returned /\ \A p \in Range(newUrls) : EntriesOf(p) # {})

\* a returned run whose first item failed and whose later items, in the same
\* batch and in the next one, were archived
C5_Witness ==
  /\ Returned
  /\ batchSize = 2
  /\ Len(Entries) = 3
  /\ ~Entries[1].success
  /\ Entries[2].success /\ ~Entries[2].skipped
  /\ Entries[3].success /\ ~Entries[3].skipped

\* C6: checkForDuplicates returns every input item in exactly one of newUrls
\* and duplicates, once, and nothing else.
C6_Partition ==
  (pc \notin {"idle", "dupcheck"}) =>
    /\ \A p \in 1..Len(urls) : Occurrences(newUrls, p) + Occurrences(duplicates, p) = 1
    /\ Range(newUrls) \cup Range(duplicates) \subseteq 1..Len(urls)

\* a list with a repeated url, split into new and duplicate items after one
\* of its existence queries failed
C6_Witness ==
  /\ pc \notin {"idle", "dupcheck"}
  /\ dupFailed
  /\ Len(urls) = 3
  /\ Len(duplicates) = 2
  /\ Len(newUrls) = 1

\* C7: the second import of the same list creates no archive and reports
\* duplicates = total.
C7_SecondRunAllDuplicates ==
  (runNo = 2 /\ Returned) =>
    /\ Len(archives) = prevCount
    /\ results.duplicates = results.total

Done(j) == ejob[j].pc = "done"
RowId(key) == RowsOf(content_embeddings, key)[1].id
Linked(j, key) ==
  /\ RowsOf(content_embeddings, key) # <<>>
  /\ [user_id |-> ejob[j].archive.user_id, content_id |-> RowId(key),
      archive_id |-> ejob[j].archive.id] \in user_content
\* job j processes the same url with the same content as the other job, for
\* another user
SameContentOtherUser(j) ==
  \E o \in EmbedJobs \ {j} :
    /\ ejob[o].archive.url = ejob[j].archive.url
    /\ ejob[o].archive.text = ejob[j].archive.text
    /\ ejob[o].archive.user_id # ejob[j].archive.user_id

\* C8: the embedding provider is called at most once for each chunk identity
\* (contentHash, chunkIndex), over all executions.
C8_AtMostOneCallPerChunk == \A key \in DOMAIN calls : calls[key] <= 1

\* C9: in an execution started after the other one completed, every
\* chunk whose row existed is linked to the user with the existing id, the
\* provider is not called for it, and it was called once in total.
C9_ExistingRowReused ==
  \A j \in EmbedJobs :
    (ejob[j].after /\ Done(j)) =>
      \A key \in ejob[j].existed :
        /\ Linked(j, key)
        /\ key \notin ejob[j].called
        /\ calls[key] = 1

\* C10: a chunk without a row for which the provider returned null is still
\* stored (without a vector) and linked to the user.
C10_NullEmbeddingStillPersisted ==
  \A j \in EmbedJobs :
    Done(j) => \A key \in ejob[j].nulls \ ejob[j].existed : Linked(j, key)

\* C11: every archive an import run created (extraction succeeded, row
\* inserted) has had its embedding processing started by the time the run
\* returns.
C11_ImportedArchivesAreEmbedded ==
  Returned =>
    \A k \in 1..Len(Entries) :
      (Entries[k].success /\ ~Entries[k].skipped) => Entries[k].archiveId \in jobs

\* the windows of a text that trim to the empty string give no chunk
ChunkReturned == ctPc = "returned"

\* C12: every chunkText call returns.
C12_ChunkTextTerminates == (ctPc = "loop") ~> ChunkReturned

\* C13: the chunks chunkText builds carry the indices 0, 1, ..., n-1 in
\* emission order.
C13_IndicesAreDense ==
  (ctPc # "idle" /\ ~ctLegacy) =>
    \A k \in 1..Len(ctChunks) : ctChunks[k].index = k - 1

\* a returned call of part_003's chunkText that dropped a blank window between
\* two chunks
C13_Witness ==
  /\ ChunkReturned /\ ~ctLegacy
  /\ Len(ctChunks) = 2
  /\ ctText = <<"a", " ", " ", "a">>
  /\ ctChunkSize = 1 /\ ctOverlap = 0

\* C14: a non-blank text shorter than chunkSize gives exactly one chunk.
C14_ShortTextOneChunk ==
  (ChunkReturned /\ Len(ctText) < ctChunkSize /\ Trim(ctText) # <<>>) =>
    Len(ctChunks) = 1

\* C19: the position at the start of an iteration is greater than the
\* position at the start of the previous one.
C19_PositionIncreases ==
  (ctPc = "loop" /\ ctPrev >= 0 /\ ctPosition < Len(ctText)) => ctPosition > ctPrev

\* C15: the answered groups are in descending relevance_score order, and
\* groups with equal relevance_score are in the order in which their archive
\* was first seen in the hits.
C15_SortedAndStable ==
  shPc = "responded" =>
    \A a, b \in 1..Len(finalResults) :
      a < b =>
        /\ finalResults[a].relevance_score >= finalResults[b].relevance_score
        /\ finalResults[a].relevance_score = finalResults[b].relevance_score
             => finalResults[a].first < finalResults[b].first

\* C16: for a text that contains the query phrase, the highlighted snippet
\* contains both query terms, each wrapped in the emphasis marker.
C16_SnippetHighlightsBothTerms ==
  snPc = "highlighted" =>
    /\ Includes(ToLowerCase(snHighlighted),
                <<"*", "*", "g", "e", "m", "i", "n", "i", "*", "*">>)
    /\ Includes(ToLowerCase(snHighlighted),
                <<"*", "*", "e", "m", "b", "e", "d", "d", "i", "n", "g", "s", "*", "*">>)

\* what validatePocketCSV is to reject: fewer than two lines, a header without
\* url and title, or no URL in the sampled data rows
CsvToReject(csvContent) ==
  \/ Len(csvContent) < 2
  \/ ~HeaderHasColumns(csvContent[1])
  \/ \A n \in 2..Len(csvContent) : ~LineIncludesHttp(csvContent[n])
\* no line of the content gives an item
CsvWithoutItem(csvContent) ==
  \A n \in 1..Len(csvContent) :
    csvContent[n] = <<>> \/ ~CellStartsWithHttp(csvContent[n][1])

\* C17: a request whose content validatePocketCSV rejects, or whose parsing
\* gives no item, is answered with an error and starts no run: no existence
\* query, no extraction, no archive.
C17_RejectedImportStartsNothing ==
  (ireq.pc # "idle" /\ (CsvToReject(ireq.csvContent) \/ CsvWithoutItem(ireq.csvContent))) =>
    /\ runNo = 0 /\ pc = "idle" /\ archives = <<>>
    /\ ireq.pc = "done" => ireq.status \in {400, 500}

\* a content with two URL rows under a header that is not Pocket's is refused
C17_Witness ==
  /\ ireq.pc = "done" /\ ireq.status = 500
  /\ ireq.csvContent = <<<<"name", "link">>, <<"http://a", "A">>, <<"http://b", "B">>>>
  /\ runNo = 0

\* the items a results entry was pushed for
SettledItems == {results.results[n].item : n \in 1..Len(results.results)}
\* the items whose mapper was started and has not been counted yet
ItemsInFlight == {slots[k].item : k \in DOMAIN slots}
\* the window of the batch that starts at index ni of urlsToProcess
BatchWindow(ni) == {newUrls[p] : p \in (ni + 1)..Min(ni + batchSize, Len(newUrls))}

\* the started items are those of one batch, at most batchSize of them; the
\* items of every earlier batch are counted and no item of a later batch is
\* started or counted
OneBatchInFlight ==
  /\ pc = "batch" =>
       /\ Len(slots) <= batchSize
       /\ i % batchSize = 0
       /\ ItemsInFlight = BatchWindow(i)
       /\ \A k \in DOMAIN slots : slots[k].item = newUrls[i + k]
       /\ SettledItems = {newUrls[p] : p \in 1..i}
  /\ pc # "batch" => slots = <<>>

\* the loop leaves a batch only when each of its promises is settled
LeavesBatchSettled ==
  (pc = "batch" /\ (i' # i \/ pc' # "batch")) =>
    \A k \in DOMAIN slots : slots[k].pc \in {"fulfilled", "rejected"}

\* C18: during a processPocketImport run the items in flight all belong to
\* one batch and are at most batchSize; no item of the next batch is started
\* (no existence re-check, no extraction) before every item of the current
\* batch has settled.
C18_BatchesRunOneAtATime == []OneBatchInFlight /\ [][LeavesBatchSettled]_vars

\* the second batch of a three-item run is extracting while both items of the
\* first batch are counted
C18_Witness ==
  /\ pc = "batch" /\ batchSize = 2 /\ i = 2 /\ Len(newUrls) = 3
  /\ Len(results.results) = 2
  /\ slots[1].pc = "extract"

\* checkForDuplicates has returned to processPocketImport
DupCheckReturned == pc \notin {"idle", "dupcheck"} /\ Len(urls) > 0
\* the urls some answered query returned a row for
FoundBySuccessful == UNION {dupLog[n].found : n \in {m \in 1..Len(dupLog) : dupLog[m].ok}}
\* the positions of the batch that starts at index at of urlList
DupBatchPositions(at) == (at + 1)..Min(at + DupBatchSize, Len(urls))
SomeQueryFailed == \E n \in 1..Len(dupLog) : ~dupLog[n].ok
\* one query per batch, in order: the loop went on after a failed query
EveryBatchQueried ==
  /\ Len(dupLog) * DupBatchSize >= Len(urls)
  /\ \A n \in 1..Len(dupLog) : dupLog[n].at = (n - 1) * DupBatchSize

\* C20 as stated: after a failed existence query every url of its batch is
\* classified as new, the urls found by the answered queries are duplicates,
\* and checkForDuplicates returns normally.
C20_FailedBatchAllNew ==
  (DupCheckReturned /\ SomeQueryFailed) =>
    /\ \A n \in 1..Len(dupLog) : ~dupLog[n].ok =>
         DupBatchPositions(dupLog[n].at) \subseteq Range(newUrls)
    /\ \A p \in 1..Len(urls) : urls[p] \in FoundBySuccessful => p \in Range(duplicates)
    /\ EveryBatchQueried

\* C20 amended: after a failed existence query, the items of its batch whose
\* url no answered query found are classified as new, every item whose url an
\* answered query found is a duplicate, every batch was still queried and
\* checkForDuplicates returns normally.
C20_FailedBatchNewUnlessFoundElsewhere ==
  (DupCheckReturned /\ SomeQueryFailed) =>
    /\ \A n \in 1..Len(dupLog) : ~dupLog[n].ok =>
         \A p \in DupBatchPositions(dupLog[n].at) :
           urls[p] \notin FoundBySuccessful => p \in Range(newUrls)
    /\ \A p \in 1..Len(urls) : urls[p] \in FoundBySuccessful => p \in Range(duplicates)
    /\ EveryBatchQueried
    /\ results.duplicates = Len(duplicates)

\* the query of the first batch answered with an archived url, the query of
\* the second failed: the archived item is a duplicate, the others are new
C20_Witness ==
  /\ DupCheckReturned
  /\ Len(urls) = 3 /\ Len(dupLog) = 2
  /\ dupLog[1].ok /\ dupLog[1].found # {}
  /\ ~dupLog[2].ok
  /\ 3 \in Range(newUrls)
  /\ Len(duplicates) = 1

\* the result object of the n-th results entry, without the recorded extras
EntryResult(n) ==
  [success |-> results.results[n].success, skipped |-> results.results[n].skipped,
   url |-> results.results[n].url, archiveId |-> results.results[n].archiveId]
\* among the first n results entries: archived ones, failed ones
SuccessfulUpTo(n) ==
  Cardinality({m \in 1..n : results.results[m].success /\ ~results.results[m].skipped})
FailedUpTo(n) == Cardinality({m \in 1..n : ~results.results[m].success})

\* C21: onProgress is invoked exactly once for each item that was not a
\* pre-existing duplicate, after the item completed, with the item's url and
\* result and with successful/failed counters that include the item.
C21_ProgressOncePerItem ==
  /\ Len(progress) = Len(results.results)
  /\ \A n \in 1..Len(progress) :
       /\ progress[n].currentItem = results.results[n].item
       /\ progress[n].currentUrl = urls[progress[n].currentItem]
       /\ progress[n].currentResult = EntryResult(n)
       /\ progress[n].successful = SuccessfulUpTo(n)
       /\ progress[n].failed = FailedUpTo(n)
       /\ progress[n].currentItem \notin ItemsInFlight
       /\ \A m \in 1..Len(progress) :
            progress[m].currentItem = progress[n].currentItem => m = n
  /\ Returned => {progress[n].currentItem : n \in 1..Len(progress)} = Range(newUrls)

\* a run over three new items returned after two archives and one failure
C21_Witness ==
  /\ Returned /\ Len(newUrls) = 3 /\ Len(progress) = 3
  /\ progress[3].successful = 2 /\ progress[3].failed = 1
  /\ ~progress[2].currentResult.success

\* C22 as stated: the entries of results.results are in the order in which
\* their items completed.
C22_ResultsInCompletionOrder ==
  \A n, m \in 1..Len(results.results) :
    n < m => results.results[n].doneAt < results.results[m].doneAt

\* C22 amended: the entries of results.results are in the input order of the
\* items that were not pre-existing duplicates (batch after batch, and inside
\* a batch in the order of the batch), whatever order the items completed in.
C22_ResultsInInputOrder ==
  /\ Len(results.results) <= Len(newUrls)
  /\ \A n \in 1..Len(results.results) : results.results[n].item = newUrls[n]

\* the second item of a batch completed before the first, and is second in
\* the results
C22_Witness ==
  /\ Returned /\ Len(results.results) >= 2
  /\ results.results[1].doneAt = 2 /\ results.results[2].doneAt = 1

\* Math.ceil(urlsToProcess.length / batchSize)
TotalBatches == (Len(newUrls) + batchSize - 1) \div batchSize

\* C23: processPocketImport sleeps delayBetweenBatches between the end of
\* every batch and the start of the next one and not after the final batch,
\* for every number of new items and every batchSize.
C23_SleepBetweenBatchesOnly ==
  /\ pc = "batch" => sleeps = i \div batchSize
  /\ pc = "delay" => /\ sleeps = i \div batchSize + 1
                     /\ i + batchSize < Len(newUrls)
  /\ Returned => sleeps = IF TotalBatches = 0 THEN 0 ELSE TotalBatches - 1

\* three new items in batches of one: two sleeps, none after the third batch
C23_Witness ==
  /\ Returned /\ batchSize = 1 /\ Len(newUrls) = 3
  /\ Len(results.results) = 3
  /\ sleeps = 2

\* the results entries of the items found at the per-item existence check
SkippedEntries == {n \in 1..Len(results.results) : results.results[n].skipped}

\* C24: an item that the existence check of archiveSinglePage finds already
\* archived causes no extraction call and no insert, is reported with
\* success and skipped, and counts in skipped only; so skipped >= duplicates.
C24_RecheckSkipCountsAsSkippedOnly ==
  /\ \A k \in DOMAIN slots :
       (slots[k].pc = "fulfilled" /\ slots[k].attempts = 0) =>
         /\ slots[k].result.success /\ slots[k].result.skipped
         /\ slots[k].extracted = 0
  /\ \A n \in 1..Len(results.results) :
       /\ results.results[n].skipped <=> results.results[n].attempts = 0
       /\ results.results[n].skipped =>
            results.results[n].success /\ results.results[n].extracted = 0
  /\ pc \notin {"idle", "dupcheck"} =>
       /\ results.skipped = Len(duplicates) + Cardinality(SkippedEntries)
       /\ results.duplicates = Len(duplicates)
       /\ results.successful = SuccessfulUpTo(Len(results.results))
       /\ results.failed = FailedUpTo(Len(results.results))
       /\ results.skipped >= results.duplicates

\* a list with the same new url twice, in batches of one: the first item is
\* archived, the second is found at its existence check
C24_Witness ==
  /\ Returned /\ Len(duplicates) = 0 /\ Len(results.results) = 2
  /\ ~results.results[1].skipped /\ results.results[1].success
  /\ results.results[2].skipped
  /\ results.skipped = 1 /\ results.successful = 1 /\ results.failed = 0

\* C25: the processed value passed to onProgress is the number of
\* non-duplicate items completed so far: it is n at the n-th invocation, also
\* for items skipped at the per-item existence check.
C25_ProcessedCountsEveryItem ==
  \A n \in 1..Len(progress) : progress[n].processed = n

\* the character at index p of the text is inside a window whose trimmed
\* content is one of the chunks
InSomeChunk(p) ==
  \E w \in ctWindows :
    /\ w[1] <= p /\ p < w[2]
    /\ \E k \in 1..Len(ctChunks) : ctChunks[k].content = Trim(Slice(ctText, w[1], w[2]))

\* C26: the windows chunkText scans leave no gap: each window starts at or
\* before the end of the previous one and the last window ends at the end of
\* the text, so every non-whitespace character is in a returned chunk.
C26_WindowsLeaveNoGap ==
  (~ctLegacy /\ ctPc \in {"loop", "returned"} /\ ctPrev >= 0) =>
    /\ \E w \in ctWindows : w[1] = ctPrev /\ ctPosition <= w[2]
                              /\ (ChunkReturned => w[2] = Len(ctText))
    /\ \E w \in ctWindows : w[1] = 0
    /\ ChunkReturned =>
         \A p \in 0..(Len(ctText) - 1) : ctText[p + 1] \notin Whitespace => InSomeChunk(p)

\* a returned call over a text with a blank stretch, scanned in three or more
\* windows
C26_Witness ==
  /\ ChunkReturned /\ ~ctLegacy
  /\ ctText = <<"a", " ", " ", "a", ".">>
  /\ ctChunkSize = 2 /\ ctOverlap = 1
  /\ Cardinality(ctWindows) >= 3

\* the first of the hits handled so far that is for the archive
FirstHitFor(archiveId) ==
  shHits[SetMin({n \in 1..shK : shHits[n].archive_id = archiveId})]
\* no archive id twice, and every score is that of the archive's first hit
GroupsOfFirstHits(groups) ==
  \A n \in 1..Len(groups) :
    /\ \A m \in 1..Len(groups) : groups[m].id = groups[n].id => m = n
    /\ groups[n].relevance_score = FirstHitFor(groups[n].id).relevance_score

\* C27: each archive id is in at most one result group, the supplemental
\* archive query is issued at most once per archive id, and a group's
\* relevance_score is the score of the first hit of its archive, whatever the
\* later hits of the archive score.
C27_OneGroupFirstScore ==
  /\ GroupsOfFirstHits(groupedResults)
  /\ GroupsOfFirstHits(finalResults)
  /\ \A id \in ArchiveIds : Occurrences(shFetched, id) <= 1

\* three hits of one archive without text, the later ones scoring higher:
\* one group with the first score, one fetch
C27_Witness ==
  /\ shPc = "responded"
  /\ Len(shHits) = 3
  /\ \A n \in 1..3 : shHits[n].archive_id = "x" /\ ~shHits[n].archived_text
  /\ shHits[1].relevance_score = 1 /\ shHits[2].relevance_score = 2
  /\ Len(finalResults) = 1 /\ finalResults[1].relevance_score = 1
  /\ shFetched = <<"x">>

RECURSIVE SumOver(_, _)
SumOver(f, S) ==
  IF S = {} THEN 0
  ELSE LET x == CHOOSE y \in S : TRUE IN f[x] + SumOver(f, S \ {x})

\* C28: a POST /api/archive request that ends with an error response leaves
\* the user's usage count as it was; the count grows only when an archive is
\* created. With every request over, the counts add up to the number of
\* requests answered 200.
C28_UsageCountsCreatedArchivesOnly ==
  (\A q \in DOMAIN req : req[q].pc \in {"idle", "done"}) =>
    SumOver(usage, Users) = Cardinality({q \in DOMAIN req : /\ req[q].pc = "done"
                                                              /\ req[q].method = "POST"
                                                              /\ req[q].status = 200})

DedupeDone == dd.pc = "done"
\* the rows of before with the user and url of r
CopiesBefore(r) == SelectSeq(dd.before, LAMBDA s : s.user_id = r.user_id /\ s.url = r.url)
\* r is the oldest archive of its url and user in the table the run found
OldestBefore(r) == CopiesBefore(r)[1] = r
\* every delete batch of the run succeeded
EveryDeleteSucceeded == dd.failedIds = {}

\* C29: the deduplication never deletes the oldest archive of a url of the
\* user (nor any row of another user); when every delete batch succeeds one
\* archive per url remains; when a delete batch fails the loop goes on with
\* the next batch, and the reported number counts the ids of the batches
\* that succeeded.
C29_DedupeKeepsOldest ==
  /\ dd.pc # "idle" =>
       /\ \A n \in 1..Len(dd.before) :
            (OldestBefore(dd.before[n]) \/ dd.before[n].user_id # dd.userId) =>
              dd.before[n] \in Range(archives)
       /\ Range(archives) \subseteq Range(dd.before)
  /\ (DedupeDone /\ dd.status \in {0, 200} /\ dd.rows # <<>> /\ EveryDeleteSucceeded) =>
       \A n \in 1..Len(dd.before) :
         dd.before[n].user_id = dd.userId =>
           Len(SelectByUserUrls(archives, dd.userId, {dd.before[n].url})) = 1
  /\ dd.pc \in {"count", "done"} =>
       /\ dd.deleted = Len(dd.before) - Len(archives)
       /\ dd.deleted = Len(dd.idsToDelete) - Cardinality(dd.failedIds)
       /\ \A n \in 1..Len(dd.idsToDelete) :
            dd.idsToDelete[n] \in dd.failedIds
              <=> \E m \in 1..Len(archives) : archives[m].id = dd.idsToDelete[n]

\* four copies of one url: the first delete batch failed, the second
\* succeeded, and the run reports one removed duplicate
C29_Witness ==
  /\ DedupeDone /\ dd.status = 200
  /\ Len(dd.before) = 4 /\ Len(dd.idsToDelete) = 3
  /\ dd.failedIds = {2, 3}
  /\ dd.deleted = 1 /\ dd.finalCount = 3
  /\ Len(archives) = 3

\* the name of the stored entity with the id
StoredName(id) == (CHOOSE r \in Range(kg.table) : r.id = id).name

\* C30: the name to id map built from saveEntities' result maps each
\* extracted name to the id of the stored entity of that name, also when
\* saving an entity failed; so every relationship and every article link is
\* stored against the entities it names.
C30_MapNamesStoredEntities ==
  /\ \A c \in KgCalls :
       kg.call[c].pc \in {"relLookup", "relInsert", "linkLookup", "linkInsert", "done"} =>
         \A name \in DOMAIN kg.call[c].entitiesMap :
           StoredName(kg.call[c].entitiesMap[name]) = name
  /\ \A n \in 1..Len(kg.stored) :
       /\ StoredName(kg.stored[n].from_entity_id) = kg.stored[n].from_entity
       /\ StoredName(kg.stored[n].to_entity_id) = kg.stored[n].to_entity
  /\ \A n \in 1..Len(kg.links) : StoredName(kg.links[n].entity_id) = kg.links[n].name
====
